---- MODULE Spec2Model ----
(***************************************************************************)
(* Model of the AD management tool (aden3431/adpython).                    *)
(*                                                                         *)
(* Part 1: the two SAM-account generators (src/helpers.py and              *)
(* src/UserEditor/helpers.py) and the create-mode handlers of UserWindow   *)
(* that call the second one.                                               *)
(* Part 2: the edit session of UserWindow: dirty flags, attributes tab and *)
(* save_changes.                                                           *)
(*                                                                         *)
(* A Python str is a sequence of one-character strings.                    *)
(***************************************************************************)
EXTENDS Integers, Sequences, FiniteSets, TLC

(***************************************************************************)
(* Characters and the str methods the generators use.                      *)
(***************************************************************************)
ascii_lowercase ==
    {"a","b","c","d","e","f","g","h","i","j","k","l","m",
     "n","o","p","q","r","s","t","u","v","w","x","y","z"}

digits ==
    {"0","1","2","3","4","5","6","7","8","9"}

valid_chars ==
    ascii_lowercase \cup digits \cup {".", "-", "_"}

\* The upper-case characters of the model's alphabet and their lower-case
\* forms ("E^" / "e^" stand for a non-ASCII letter pair such as E-acute).
UpperToLower ==
    [c \in {"J", "D", "O", "N", "E^"} |->
        CASE c = "J" -> "j"
          [] c = "D" -> "d"
          [] c = "O" -> "o"
          [] c = "N" -> "n"
          [] c = "E^" -> "e^"]

Whitespace ==
    {" "}

LowerChar(c) ==
    IF c \in DOMAIN UpperToLower THEN UpperToLower[c] ELSE c

\* str.lower()
Lower(s) ==
    [i \in 1..Len(s) |-> LowerChar(s[i])]

\* s[:n]
Take(s, n) ==
    IF n <= 0 THEN <<>> ELSE SubSeq(s, 1, IF n < Len(s) THEN n ELSE Len(s))

RECURSIVE LStrip(_)
LStrip(s) ==
    IF s # <<>> /\ s[1] \in Whitespace THEN LStrip(Tail(s)) ELSE s

RECURSIVE RStrip(_)
RStrip(s) ==
    IF s # <<>> /\ s[Len(s)] \in Whitespace
    THEN RStrip(SubSeq(s, 1, Len(s) - 1))
    ELSE s

\* str.strip()
Strip(s) ==
    RStrip(LStrip(s))

\* str(n) for the small positive integers the generator formats
Str(n) ==
    CASE n = 1 -> <<"1">>
      [] n = 2 -> <<"2">>
      [] n = 3 -> <<"3">>
      [] n = 4 -> <<"4">>
      [] n = 5 -> <<"5">>
      [] n = 6 -> <<"6">>
      [] OTHER -> <<"9", "9">>

InSeq(x, s) ==
    \E i \in 1..Len(s) : s[i] = x

Range(s) ==
    {s[i] : i \in 1..Len(s)}

\* Python's None
None ==
    <<"<None>">>

\* ''.join(c if c in valid_chars else '.' for c in candidate)
Sanitize(s) ==
    [i \in 1..Len(s) |-> IF s[i] \in valid_chars THEN s[i] ELSE "."]

IsSanitized(s) ==
    \A i \in 1..Len(s) : s[i] \in valid_chars

(***************************************************************************)
(* src/helpers.py                                                          *)
(***************************************************************************)
\* The directory answers a sAMAccountName search with "free" (no entry),
\* "exists" (an entry) or "error" (the search raises).
Status ==
    {"free", "exists", "error"}

\* conn = FALSE models ldap_conn = None: the attribute access raises inside
\* the try block.
check_sam_account_exists(sam_account, conn, d) ==
    IF ~conn THEN FALSE
    ELSE CASE d[sam_account] = "exists" -> TRUE
           [] d[sam_account] = "free" -> FALSE
           [] d[sam_account] = "error" -> FALSE

\* The candidates list built by lines 53-70.
helpers_candidates(first0, last0) ==
    LET first == Strip(Lower(first0))
        last == Strip(Lower(last0))
        cand1 == first \o <<".">> \o last
        l1 == IF Len(cand1) <= 20 THEN <<cand1>> ELSE <<>>
        cand2 == IF first # <<>> THEN <<first[1]>> \o <<".">> \o last ELSE <<>>
        l2 == IF cand2 # <<>> /\ Len(cand2) <= 20 /\ ~InSeq(cand2, l1)
              THEN Append(l1, cand2) ELSE l1
        cand3 == IF Len(first) >= 2 THEN Take(first, 2) \o <<".">> \o last ELSE cand2
        l3 == IF cand3 # <<>> /\ Len(cand3) <= 20 /\ ~InSeq(cand3, l2)
              THEN Append(l2, cand3) ELSE l2
    IN l3

\* The loop of lines 73-77 from index i on; the result records what was
\* returned and the searches issued.
RECURSIVE helpers_loop(_, _, _, _)
helpers_loop(cands, i, conn, d) ==
    IF i > Len(cands) THEN [result |-> None, queried |-> cands, raised |-> FALSE]
    ELSE IF ~check_sam_account_exists(cands[i], conn, d)
         THEN [result |-> cands[i],
               queried |-> IF conn THEN Take(cands, i) ELSE <<>>,
               raised |-> FALSE]
         ELSE helpers_loop(cands, i + 1, conn, d)

helpers_auto_generate_sam_account(first, last, conn, d) ==
    helpers_loop(helpers_candidates(first, last), 1, conn, d)

(***************************************************************************)
(* src/UserEditor/helpers.py                                               *)
(***************************************************************************)
max_attempts ==
    5

is_sam_account_unique(conn, sam_account, d) ==
    IF ~conn \/ sam_account = <<>> THEN FALSE
    ELSE d[sam_account] = "free"

\* The searches one is_sam_account_unique call issues.
unique_queries(conn, sam_account) ==
    IF ~conn \/ sam_account = <<>> THEN <<>> ELSE <<sam_account>>

\* Lines 64-70: the candidate is cut to 20 characters, then every character
\* outside valid_chars becomes "." (sanitize).  Cutting off only the last
\* character of a candidate that is too long would leave a longer one too
\* long still.
sanitize_dropping_last(candidate) ==
    Sanitize(IF Len(candidate) > 20 THEN Take(candidate, Len(candidate) - 1)
             ELSE candidate)

sanitize(candidate) ==
    Sanitize(IF Len(candidate) > 20 THEN Take(candidate, 20) ELSE candidate)

\* Lines 62-70: the base candidate.
base_candidate(first, last) ==
    sanitize(<<first[1]>> \o <<".">> \o last)

\* Lines 78 and 89: candidate[:19-len(str(attempt))] + str(attempt)
numbered_candidate(candidate, attempt) ==
    Take(candidate, 19 - Len(Str(attempt))) \o Str(attempt)

\* Line 82
two_char_candidate(first, last) ==
    Take(Take(first, 2) \o <<".">> \o last, 20)

\* Line 86
two_char_numbered(first, last, suffix) ==
    Take(first, 2) \o <<".">> \o Take(last, 17 - Len(Str(suffix))) \o Str(suffix)

\* Lines 76-89: the name one pass of the loop proposes.
new_candidate(first, last, candidate, attempt, conn, d) ==
    IF attempt <= 2 THEN numbered_candidate(candidate, attempt)
    ELSE IF Len(first) >= 2
         THEN IF ~is_sam_account_unique(conn, two_char_candidate(first, last), d)
              THEN two_char_numbered(first, last, attempt - 2)
              ELSE two_char_candidate(first, last)
         ELSE numbered_candidate(candidate, attempt)

\* The searches one pass of the loop issues (line 83, then line 91).
attempt_queries(first, last, candidate, attempt, conn, d) ==
    (IF attempt > 2 /\ Len(first) >= 2
     THEN unique_queries(conn, two_char_candidate(first, last))
     ELSE <<>>)
    \o unique_queries(conn, new_candidate(first, last, candidate, attempt, conn, d))

\* Lines 75-95
RECURSIVE variations(_, _, _, _, _, _, _)
variations(first, last, candidate, attempt, conn, d, q) ==
    IF attempt > max_attempts THEN [result |-> None, queried |-> q, raised |-> FALSE]
    ELSE LET nc == new_candidate(first, last, candidate, attempt, conn, d)
             q2 == q \o attempt_queries(first, last, candidate, attempt, conn, d)
         IN IF is_sam_account_unique(conn, nc, d)
            THEN [result |-> nc, queried |-> q2, raised |-> FALSE]
            ELSE variations(first, last, candidate, attempt + 1, conn, d, q2)

\* raised = TRUE: first[0] on an empty string raises IndexError (line 62).
auto_generate_sam_account(first0, last0, conn, d) ==
    IF first0 = <<>> \/ last0 = <<>> \/ ~conn
    THEN [result |-> None, queried |-> <<>>, raised |-> FALSE]
    ELSE LET first == Lower(Strip(first0))
             last == Lower(Strip(last0))
         IN IF first = <<>>
            THEN [result |-> None, queried |-> <<>>, raised |-> TRUE]
            ELSE LET candidate == base_candidate(first, last)
                 IN IF ~is_sam_account_unique(conn, candidate, d)
                    THEN variations(first, last, candidate, 1, conn, d,
                                    unique_queries(conn, candidate))
                    ELSE [result |-> candidate,
                          queried |-> unique_queries(conn, candidate),
                          raised |-> FALSE]

(***************************************************************************)
(* The create-mode session of UserWindow (src/UserEditor/user_window.py).  *)
(* The administrator enters one person; the directory's answers for the    *)
(* names that person can lead to are fixed for the session.                *)
(***************************************************************************)
Rep(c, n) ==
    [i \in 1..n |-> c]

LongLastLen ==
    18

TooLongLastLen ==
    19

\* The raw texts the administrator may enter as first and last name.
Persons ==
    { [first |-> <<"J","a","n","e">>, last |-> <<"D","o","e">>],
      [first |-> <<"j">>,             last |-> <<"d","o","e">>],
      [first |-> <<"J","a","n","e">>, last |-> Rep("b", LongLastLen)],
      [first |-> <<"j">>,             last |-> Rep("b", TooLongLastLen)],
      [first |-> <<"J","o">>,         last |-> <<"D","o","e">>],
      [first |-> <<"J","o">>,         last |-> Rep("b", LongLastLen)],
      [first |-> <<"J","o">>,         last |-> <<"O","'","N">>],
      [first |-> <<"E^">>,            last |-> <<"d">>],
      [first |-> <<>>,                last |-> <<"d","o","e">>],
      [first |-> <<" ">>,             last |-> <<"d","o","e">>],
      [first |-> <<"j","a">>,         last |-> <<>>],
      [first |-> <<"j">>,             last |-> <<" ">>] }

\* The persons entered in the create-mode session.
PersonsWin ==
    { [first |-> <<"J","o">>,         last |-> <<"D","o","e">>],
      [first |-> <<"J","o">>,         last |-> Rep("b", LongLastLen)],
      [first |-> <<"j">>,             last |-> Rep("b", TooLongLastLen)],
      [first |-> <<" ">>,             last |-> <<"d","o","e">>] }

\* Every name a generator call for the person can search for.
Universe(p) ==
    LET first == Lower(Strip(p.first))
        last == Lower(Strip(p.last))
        c == base_candidate(first, last)
    IN Range(helpers_candidates(p.first, p.last))
       \cup (IF first = <<>> THEN {}
             ELSE IF Len(first) >= 2
                  THEN {c, numbered_candidate(c, 1), numbered_candidate(c, 2),
                        two_char_candidate(first, last)}
                       \cup {two_char_numbered(first, last, k) : k \in 1..(max_attempts - 2)}
                  ELSE {c} \cup {numbered_candidate(c, k) : k \in 1..max_attempts})

VARIABLES
    person,             \* the person being entered
    dir,                \* the directory: name -> Status
    first_name_edit,
    last_name_edit,
    display_name_edit,
    sam_account_edit,
    upn_edit,
    contractor_chk,
    password_edit,      \* the password fields as they were at the last click of
    confirm_password_edit, \* the create button
    status_label,
    call,               \* the most recent generator call and what it returned
    placed,             \* the name the last handler put in sam_account_edit, or None
    writes,             \* the directory writes of the most recent handler
    write_conn,         \* its write connection: "none", "bound" or "unbound"
    messages,           \* the message boxes it showed
    closed,             \* the window has been closed
    mode,               \* UserOperation: "CREATE" or "EDIT"
    user_data,          \* edit mode: the attribute snapshot
    modified_attributes,\* edit mode: the dirty flags
    edit_text,          \* edit mode: the text of each line edit
    edit_chk,           \* edit mode: the state of each check box
    edit_combo,         \* edit mode: the current index of each combo box
    custom_attributes,  \* attributes_tab.custom_attributes
    modifications,      \* the dict the most recent save_changes built
    edits,              \* number of edit events of the session so far
    handler,            \* edit mode: the handler that ran last, "" for none
    stack,              \* the handlers that have started and not returned
    in_flight,          \* directory calls that have started and not returned
    manager,            \* the TemplateManager: "none", "built" or "raised"
    templates,          \* TemplateManager.templates
    file,               \* the file at TemplateManager.file_path
    export_file,        \* the file export_templates and import_templates name
    exported,           \* the templates export_file was last exported from
    tpl_call,           \* the most recent TemplateManager call
    events,             \* key events the event loop has not delivered yet
    timers,             \* QTimer.singleShot callbacks that have not fired yet
    browser             \* LoginWindow.browser: "none" or "shown"

editvars ==
    <<user_data, modified_attributes, edit_text, edit_chk, edit_combo,
      custom_attributes, modifications, edits, handler>>

createvars ==
    <<person, dir, first_name_edit, last_name_edit, display_name_edit,
      sam_account_edit, upn_edit, contractor_chk, password_edit,
      confirm_password_edit, call, placed>>

pumpvars ==
    <<stack, in_flight>>

tplvars ==
    <<manager, templates, file, export_file, exported, tpl_call>>

loopvars ==
    <<events, timers, browser>>

vars ==
    <<createvars, editvars, pumpvars, tplvars, loopvars, mode, status_label,
      writes, write_conn, messages, closed>>

writevars ==
    <<writes, write_conn, messages, closed>>

\* A handler that opens no write connection and shows no message box.
NoWrites ==
    /\ writes' = <<>>
    /\ write_conn' = "none"
    /\ messages' = <<>>
    /\ closed' = closed

\* No file on disk.
MissingFile ==
    [exists |-> FALSE, valid |-> FALSE, doc |-> <<>>]

NoTemplateCall ==
    [op |-> "none", arg |-> "", raised |-> "", normal |-> TRUE,
     returned |-> [t |-> "NoneType", s |-> "", n |-> 0, l |-> <<>>], before |-> <<>>]

NotExported ==
    [done |-> FALSE, templates |-> <<>>]

\* A window whose template manager is not looked at: no template file, no
\* template.
NoTemplates ==
    /\ manager = "built"
    /\ templates = <<>>
    /\ file = MissingFile
    /\ export_file = MissingFile
    /\ exported = NotExported
    /\ tpl_call = NoTemplateCall

\* No key event waits in the event loop, no timer is pending and no
\* directory browser has been opened.
NothingPending ==
    /\ events = <<>>
    /\ timers = 0
    /\ browser = "none"

NoCall ==
    [fn |-> "none", by |-> "none", first |-> <<>>, last |-> <<>>, conn |-> TRUE,
     result |-> None, queried |-> <<>>, raised |-> FALSE]

MkCall(fn, by, first, last, conn, r) ==
    [fn |-> fn, by |-> by, first |-> first, last |-> last, conn |-> conn,
     result |-> r.result, queried |-> r.queried, raised |-> r.raised]

\* UserWindow.__init__ and setup_create_mode_ui: every field empty.
FormAfterConstruction ==
    /\ first_name_edit = <<>>
    /\ last_name_edit = <<>>
    /\ display_name_edit = <<>>
    /\ sam_account_edit = <<>>
    /\ upn_edit = <<>>
    /\ contractor_chk = FALSE
    /\ password_edit = <<>>
    /\ confirm_password_edit = <<>>
    /\ status_label = ""
    /\ call = NoCall
    /\ placed = None
    /\ writes = <<>>
    /\ write_conn = "none"
    /\ messages = <<>>
    /\ closed = FALSE
    /\ mode = "CREATE"
    /\ user_data = <<>>
    /\ modified_attributes = {}
    /\ edit_text = <<>>
    /\ edit_chk = <<>>
    /\ edit_combo = <<>>
    /\ custom_attributes = <<>>
    /\ modifications = <<>>
    /\ edits = 0
    /\ handler = ""
    /\ stack = <<>>
    /\ in_flight = 0

\* The generators on their own: any person, any pattern of answers and of
\* failing searches.
InitGen ==
    /\ person \in Persons
    /\ dir \in [Universe(person) -> Status]
    /\ FormAfterConstruction
    /\ NoTemplates
    /\ NothingPending

\* The create-mode session.  is_sam_account_unique answers False both for
\* "exists" and for a failing search, so the session's directory takes the
\* two answers the window can tell apart.
InitWin ==
    /\ person \in PersonsWin
    /\ dir \in [Universe(person) -> {"free", "exists"}]
    /\ FormAfterConstruction
    /\ NoTemplates
    /\ NothingPending

\* Lines 603-607 and 992-996: the contractor suffix goes on the first 17
\* characters of the candidate (contractor_suffix); appended to the whole
\* candidate it would not fit the 20 characters of a SAM account name.
contractor_suffix_untruncated(candidate) ==
    candidate \o <<"-", "c">>

contractor_suffix(candidate) ==
    Take(candidate, 17) \o <<"-", "c">>

\* UserWindow.auto_update_fields, run with the given field texts.  hasFocus
\* is sam_account_edit.hasFocus(): the handler runs while the administrator
\* types in a name field or clicks the contractor box, so it is FALSE there.
auto_update_fields(ftext, ltext, chk, hasFocus, by) ==
    LET first == Strip(ftext)
        last == Strip(ltext)
        generating == first # <<>> /\ last # <<>> /\ ~hasFocus /\ mode = "CREATE"
        r == auto_generate_sam_account(first, last, TRUE, dir)
        candidate == IF chk THEN contractor_suffix(r.result) ELSE r.result
    IN /\ display_name_edit' = Strip(first \o <<" ">> \o last)
       /\ IF generating
          THEN /\ call' = MkCall("UserEditor.helpers", by, first, last, TRUE, r)
               /\ IF r.result # None
                  THEN /\ sam_account_edit' = candidate
                       /\ placed' = candidate
                       /\ status_label' = "Suggested username"
                  ELSE /\ sam_account_edit' = sam_account_edit
                       /\ placed' = None
                       /\ status_label' = "Could not generate a unique username"
          ELSE /\ call' = call
               /\ placed' = None
               /\ sam_account_edit' = sam_account_edit
               /\ status_label' = status_label
       /\ upn_edit' = Strip(sam_account_edit')

\* first_name_edit.textChanged -> auto_update_fields
SetFirstName ==
    \E t \in {<<>>, person.first} :
        /\ mode = "CREATE"
        /\ ~closed
        /\ t # first_name_edit
        /\ first_name_edit' = t
        /\ auto_update_fields(t, last_name_edit, contractor_chk, FALSE, "auto_update_fields")
        /\ NoWrites
        /\ UNCHANGED <<mode, editvars, pumpvars, tplvars, loopvars>>
        /\ UNCHANGED <<person, dir, last_name_edit, contractor_chk, password_edit,
                       confirm_password_edit>>

\* last_name_edit.textChanged -> auto_update_fields
SetLastName ==
    \E t \in {<<>>, person.last} :
        /\ mode = "CREATE"
        /\ ~closed
        /\ t # last_name_edit
        /\ last_name_edit' = t
        /\ auto_update_fields(first_name_edit, t, contractor_chk, FALSE, "auto_update_fields")
        /\ NoWrites
        /\ UNCHANGED <<mode, editvars, pumpvars, tplvars, loopvars>>
        /\ UNCHANGED <<person, dir, first_name_edit, contractor_chk, password_edit,
                       confirm_password_edit>>

\* contractor_chk.stateChanged -> update_contractor_status
update_contractor_status ==
    /\ mode = "CREATE"
    /\ ~closed
    /\ contractor_chk' = ~contractor_chk
    /\ IF Strip(sam_account_edit) # <<>>
       THEN auto_update_fields(first_name_edit, last_name_edit, contractor_chk',
                               FALSE, "update_contractor_status")
       ELSE UNCHANGED <<display_name_edit, sam_account_edit, upn_edit,
                        status_label, call>> /\ placed' = None
    /\ NoWrites
    /\ UNCHANGED <<mode, editvars, pumpvars, tplvars, loopvars>>
    /\ UNCHANGED <<person, dir, first_name_edit, last_name_edit, password_edit,
                   confirm_password_edit>>

\* The administrator clears the SAM account field by hand;
\* sam_account_edit.textChanged -> sync_upn_field
ClearSamAccount ==
    /\ mode = "CREATE"
    /\ ~closed
    /\ sam_account_edit # <<>>
    /\ sam_account_edit' = <<>>
    /\ upn_edit' = <<>>
    /\ placed' = None
    /\ NoWrites
    /\ UNCHANGED <<mode, editvars, pumpvars, tplvars, loopvars>>
    /\ UNCHANGED <<password_edit, confirm_password_edit,
                       person, dir, first_name_edit, last_name_edit, display_name_edit,
               contractor_chk, status_label, call>>
\* The administrator empties the display name field by hand; the field has
\* no handler.
ClearDisplayName ==
    /\ mode = "CREATE"
    /\ ~closed
    /\ display_name_edit # <<>>
    /\ display_name_edit' = <<>>
    /\ placed' = None
    /\ NoWrites
    /\ UNCHANGED <<mode, editvars, pumpvars, tplvars, loopvars>>
    /\ UNCHANGED <<password_edit, confirm_password_edit, person, dir, first_name_edit,
                   last_name_edit, sam_account_edit, upn_edit, contractor_chk,
                   status_label, call>>

\* The inputs of create_user that the model draws when the button is clicked.
Passwords ==
    {<<>>, <<"p">>}

Confirmations ==
    {<<>>, <<"p">>, <<"q">>}

\* groups_tab.get_selected_groups() returns a sub-list of these, in order.
Groups ==
    <<"Staff", "VPN">>

WriteOutcome ==
    {"ok", "fail", "raise"}

\* Lines 1118-1129: the one membership modify issued for a selected group
\* (member_write); a handler that tried a modify again after it failed would
\* issue it twice.
member_write_retried(group, outcome) ==
    IF outcome = "ok"
    THEN <<[op |-> "modify_member", group |-> group, outcome |-> outcome]>>
    ELSE <<[op |-> "modify_member", group |-> group, outcome |-> outcome],
           [op |-> "modify_member", group |-> group, outcome |-> outcome]>>

member_write(group, outcome) ==
    <<[op |-> "modify_member", group |-> group, outcome |-> outcome]>>

\* Lines 1106-1129: the membership modify of each selected group, in order;
\* sel is the set of selected groups, gout the directory's answer per group.
RECURSIVE group_writes(_, _, _)
group_writes(i, sel, gout) ==
    IF i > Len(Groups) THEN <<>>
    ELSE (IF Groups[i] \in sel
          THEN member_write(Groups[i], gout[Groups[i]])
          ELSE <<>>)
         \o group_writes(i + 1, sel, gout)

\* One "Group Error" warning per membership modify that raised (line 1124).
group_messages(ws) ==
    [i \in 1..Len(ws) |-> "Group Error"]

\* Lines 1002-1141 of create_user: the write connection and the writes.
create_user_writes(sam, upn_prefix, pw) ==
    \E bind \in {"ok", "raise"} :
      IF bind = "raise"
      THEN /\ writes' = <<>>
           /\ write_conn' = "none"
           /\ messages' = <<"LDAP Error">>
           /\ status_label' = "LDAP error occurred"
           /\ closed' = FALSE
      ELSE \E add \in WriteOutcome :
        LET addop == [op |-> "add", sAMAccountName |-> sam,
                      upn_prefix |-> upn_prefix, outcome |-> add]
        IN CASE add = "raise" ->
                  /\ writes' = <<addop>>
                  /\ write_conn' = "bound"
                  /\ messages' = <<"LDAP Error">>
                  /\ status_label' = "LDAP error occurred"
                  /\ closed' = FALSE
             [] add = "fail" ->
                  /\ writes' = <<addop>>
                  /\ write_conn' = "unbound"
                  /\ messages' = <<"Error">>
                  /\ status_label' = "Error creating user"
                  /\ closed' = FALSE
             [] add = "ok" ->
                  \E change_password_chk \in BOOLEAN, pout \in WriteOutcome :
                    LET pwdop == IF change_password_chk
                                 THEN <<[op |-> "modify_pwdLastSet", outcome |-> pout]>>
                                 ELSE <<>>
                    IN IF change_password_chk /\ pout = "raise"
                       THEN /\ writes' = <<addop>> \o pwdop
                            /\ write_conn' = "bound"
                            /\ messages' = <<"LDAP Error">>
                            /\ status_label' = "LDAP error occurred"
                            /\ closed' = FALSE
                       ELSE /\ (change_password_chk \/ pout = "ok")
                            /\ \E sel \in SUBSET Range(Groups) :
                               \E gout \in [Range(Groups) -> WriteOutcome] :
                                 /\ \A g \in Range(Groups) \ sel : gout[g] = "ok"
                                 /\ writes' = <<addop>> \o pwdop \o group_writes(1, sel, gout)
                                 /\ messages' = group_messages(
                                        SelectSeq(group_writes(1, sel, gout),
                                                  LAMBDA w : w.outcome = "raise"))
                                 /\ write_conn' = "unbound"
                                 /\ status_label' = "User created successfully"
                                 /\ closed' = TRUE

\* Lines 962-970: the warning, the status text and the return of a failed
\* input check; the form is left as it is (input_error).  A handler that
\* reset the form on an input error would empty the account name fields.
input_error_resetting_form(status) ==
    /\ status_label' = status
    /\ messages' = <<"Input Error">>
    /\ writes' = <<>>
    /\ write_conn' = "none"
    /\ placed' = None
    /\ sam_account_edit' = <<>>
    /\ upn_edit' = <<>>
    /\ UNCHANGED <<display_name_edit, call, closed>>

input_error(status) ==
    /\ status_label' = status
    /\ messages' = <<"Input Error">>
    /\ writes' = <<>>
    /\ write_conn' = "none"
    /\ placed' = None
    /\ UNCHANGED <<display_name_edit, sam_account_edit, upn_edit, call, closed>>

\* UserWindow.create_user (create_button.clicked)
create_user ==
    /\ mode = "CREATE"
    /\ ~closed
    /\ \E pw \in Passwords, cpw \in Confirmations :
        LET first == Strip(first_name_edit)
            last == Strip(last_name_edit)
            display_name == Strip(display_name_edit)
            sam_account == Strip(sam_account_edit)
            upn_prefix == upn_edit
        IN password_edit' = pw /\ confirm_password_edit' = cpw /\
           IF first = <<>> \/ last = <<>> \/ pw = <<>> \/ cpw = <<>>
           THEN input_error("Error: Missing required fields")
           ELSE IF pw # cpw
           THEN input_error("Error: Passwords do not match")
           ELSE /\ display_name_edit' =
                      IF display_name = <<>> THEN first \o <<" ">> \o last
                      ELSE display_name_edit
                /\ IF sam_account # <<>>
                   THEN /\ placed' = None
                        /\ UNCHANGED <<sam_account_edit, upn_edit, call>>
                        /\ create_user_writes(sam_account, upn_prefix, pw)
                   ELSE LET r == auto_generate_sam_account(first, last, TRUE, dir)
                            candidate == IF contractor_chk
                                         THEN contractor_suffix(r.result)
                                         ELSE r.result
                        IN /\ call' = MkCall("UserEditor.helpers", "create_user",
                                             first, last, TRUE, r)
                           /\ IF r.result = None
                              THEN /\ status_label' \in
                                        {"Please enter a SAM account name manually",
                                         "Operation cancelled"}
                                   /\ messages' = <<"SAM Account Name">>
                                   /\ writes' = <<>>
                                   /\ write_conn' = "none"
                                   /\ placed' = None
                                   /\ UNCHANGED <<sam_account_edit, upn_edit, closed>>
                              ELSE /\ sam_account_edit' = candidate
                                   /\ upn_edit' = candidate
                                   /\ placed' = candidate
                                   /\ create_user_writes(candidate, upn_prefix, pw)
    /\ UNCHANGED <<mode, editvars, pumpvars, tplvars, loopvars>>
    /\ UNCHANGED <<person, dir, first_name_edit, last_name_edit, contractor_chk>>

\* A direct call of src/helpers.py auto_generate_sam_account.  The function
\* is not wired to the form, so it is called beside a freshly built one.
CallHelpersGenerator ==
    \E conn \in BOOLEAN :
        /\ mode = "CREATE"
        /\ first_name_edit = <<>> /\ last_name_edit = <<>> /\ sam_account_edit = <<>>
        /\ call' = MkCall("helpers", "direct", person.first, person.last, conn,
                          helpers_auto_generate_sam_account(person.first, person.last, conn, dir))
        /\ placed' = None
        /\ NoWrites
        /\ UNCHANGED <<mode, editvars, pumpvars, tplvars, loopvars>>
        /\ UNCHANGED <<password_edit, confirm_password_edit,
                       person, dir, first_name_edit, last_name_edit, display_name_edit,
                       sam_account_edit, upn_edit, contractor_chk, status_label>>

\* A direct call of src/UserEditor/helpers.py auto_generate_sam_account
CallUserEditorGenerator ==
    \E conn \in BOOLEAN :
        /\ mode = "CREATE"
        /\ first_name_edit = <<>> /\ last_name_edit = <<>> /\ sam_account_edit = <<>>
        /\ call' = MkCall("UserEditor.helpers", "direct", person.first, person.last, conn,
                          auto_generate_sam_account(person.first, person.last, conn, dir))
        /\ placed' = None
        /\ NoWrites
        /\ UNCHANGED <<mode, editvars, pumpvars, tplvars, loopvars>>
        /\ UNCHANGED <<password_edit, confirm_password_edit,
                       person, dir, first_name_edit, last_name_edit, display_name_edit,
                       sam_account_edit, upn_edit, contractor_chk, status_label>>

(***************************************************************************)
(* The edit-mode session of UserWindow and the attributes tab              *)
(* (src/UserEditor/user_window.py, src/attributes_tab.py).                 *)
(*                                                                         *)
(* A directory value is a str, an int or a list of str; the record keeps   *)
(* the Python type so that 5 and "5" differ.  bytes is the type of the     *)
(* encoded password.                                                       *)
(***************************************************************************)
VStr(s) ==
    [t |-> "str", s |-> s, n |-> 0, l |-> <<>>]

VInt(n) ==
    [t |-> "int", s |-> <<>>, n |-> n, l |-> <<>>]

VList(l) ==
    [t |-> "list", s |-> <<>>, n |-> 0, l |-> l]

VBytes(s) ==
    [t |-> "bytes", s |-> s, n |-> 0, l |-> <<>>]

\* dict.get(k, default)
Get(d, k, default) ==
    IF k \in DOMAIN d THEN d[k] ELSE default

\* The dict d with d[k] = v set
Put(d, k, v) ==
    [x \in DOMAIN d \cup {k} |-> IF x = k THEN v ELSE d[x]]

\* The dict d without the key k
Del(d, k) ==
    [x \in DOMAIN d \ {k} |-> d[x]]

\* d1.update(d2)
Update(d1, d2) ==
    [x \in DOMAIN d1 \cup DOMAIN d2 |-> IF x \in DOMAIN d2 THEN d2[x] ELSE d1[x]]

EmptyDict ==
    <<>>

\* encode_password: the UTF-16LE bytes of the password in double quotes;
\* every character of the model's passwords is ASCII, so each one is its own
\* byte followed by a zero byte.
RECURSIVE utf_16_le(_)
utf_16_le(s) ==
    IF s = <<>> THEN <<>> ELSE <<Head(s), "\\x00">> \o utf_16_le(Tail(s))

\* Without the double quotes the bytes are those of the bare password.
encode_password_unquoted(password) ==
    utf_16_le(password)

encode_password(password) ==
    utf_16_le(<<"\"">> \o password \o <<"\"">>)

\* The countries of country_combo: name, two-letter code, numeric code.
countries ==
    << <<"United States", "US", "840">>,
       <<"Canada", "CA", "124">>,
       <<"United Kingdom", "GB", "826">> >>

\* The line edits of field_to_attr that the model carries: first_name_edit
\* stands for the six fields save_changes reads before the password check
\* (givenName, sn, displayName, mail, telephoneNumber, mobile), job_title_edit
\* for the eight it reads after it (title ... postalCode); each of them is
\* handled by the same two statements.
field_to_attr ==
    [first_name_edit |-> "givenName",
     job_title_edit |-> "title",
     upn_edit |-> "userPrincipalName"]

PersonalFields ==
    {"first_name_edit"}

JobFields ==
    {"job_title_edit"}

\* The attribute names save_changes skips in the attributes tab loop.
HandledElsewhere ==
    {"givenName", "sn", "displayName", "mail", "telephoneNumber", "mobile",
     "userPrincipalName", "userAccountControl", "pwdLastSet", "unicodePwd",
     "title", "department", "company", "description", "streetAddress",
     "l", "st", "postalCode", "c", "co", "countryCode"}

\* The UPN suffixes, in sorted order; the combo lists those the domains give
\* plus the suffix of the user's own UPN.
SuffixOrder ==
    << <<"@", "x">>, <<"@", "y">>, <<"@", "z">> >>

DiscoveredSuffixes ==
    { <<"@", "x">>, <<"@", "y">> }

\* upn.split('@', 1): the text before the first '@' and '@' + the rest
RECURSIVE AtIndex(_, _)
AtIndex(s, i) ==
    IF i > Len(s) THEN 0 ELSE IF s[i] = "@" THEN i ELSE AtIndex(s, i + 1)

upn_prefix_of(upn) ==
    IF AtIndex(upn, 1) = 0 THEN upn ELSE SubSeq(upn, 1, AtIndex(upn, 1) - 1)

upn_suffix_of(upn) ==
    IF AtIndex(upn, 1) = 0 THEN <<>> ELSE SubSeq(upn, AtIndex(upn, 1), Len(upn))

\* self.domain_suffixes after lines 424-426
domain_suffixes(snapshot) ==
    LET upn_suffix == upn_suffix_of(Get(snapshot, "userPrincipalName", VStr(<<>>)).s)
    IN SelectSeq(SuffixOrder,
                 LAMBDA x : x \in DiscoveredSuffixes \/ (upn_suffix # <<>> /\ x = upn_suffix))

RECURSIVE IndexOf(_, _, _)
IndexOf(s, x, i) ==
    IF i > Len(s) THEN 0 ELSE IF s[i] = x THEN i ELSE IndexOf(s, x, i + 1)

\* uac & bit, uac | bit, uac & ~bit for a single-bit mask
HasBit(n, bit) ==
    (n \div bit) % 2 = 1

SetBit(n, bit) ==
    IF HasBit(n, bit) THEN n ELSE n + bit

ClearBit(n, bit) ==
    IF HasBit(n, bit) THEN n - bit ELSE n

ADS_UF_ACCOUNTDISABLE ==
    2

ADS_UF_PASSWD_CANT_CHANGE ==
    64

ADS_UF_DONT_EXPIRE_PASSWD ==
    65536

\* The snapshots load_user_data may have produced: the attributes the
\* directory returned plus "" for schema attributes without a value; the
\* empty dict when loading failed.
Snapshots ==
    { [givenName |-> VStr(<<"a">>),
       title |-> VStr(<<"t">>),
       userPrincipalName |-> VStr(<<"a", "@", "x">>),
       userAccountControl |-> VInt(512),
       pwdLastSet |-> VInt(1),
       c |-> VStr(<<"CA">>),
       employeeID |-> VStr(<<"7">>),
       logonCount |-> VInt(5),
       otherTelephone |-> VList(<< <<"1">>, <<"2">> >>),
       info |-> VStr(<<>>)],
      [givenName |-> VStr(<<"a">>),
       title |-> VStr(<<>>),
       userPrincipalName |-> VStr(<<"a", "@", "z">>),
       userAccountControl |-> VInt(66114),
       pwdLastSet |-> VInt(0),
       employeeID |-> VStr(<<>>),
       info |-> VStr(<<>>)],
      EmptyDict }

\* The texts the administrator types into a line edit.
Texts ==
    {<<>>, <<"a">>, <<"b">>}

\* The texts typed into the password fields.
PasswordTexts ==
    {<<>>, <<"p">>, <<"q">>}

MaxEdits ==
    3

\* The position of the snapshot's country in country_combo, 1 (the first
\* item) when it has none or an unknown one.  Combo indices are counted
\* from 1 here.
country_index(snapshot) ==
    LET current_country == Get(snapshot, "c", VStr(<<>>)).s
        hits == {i \in 1..Len(countries) : <<countries[i][2]>> = current_country}
    IN IF current_country # <<>> /\ hits # {} THEN CHOOSE i \in hits : TRUE ELSE 1

\* AttributesTab.set_attributes keeps a copy of the dict it is given
\* (set_attributes): attrs is the tab's dict, alias tells whether it is the
\* caller's dict object itself.  Kept by reference, the tab's dict would be
\* user_data, and what the tab does to its dict would be done to user_data.
set_attributes_by_reference(attributes) ==
    [attrs |-> attributes, alias |-> TRUE]

set_attributes(attributes) ==
    [attrs |-> attributes, alias |-> FALSE]

\* Whether attributes_tab.custom_attributes is the object user_data after
\* line 543 of setup_edit_mode_ui.
tab_aliases_snapshot ==
    set_attributes(user_data).alias

\* UserWindow.__init__ in edit mode: load_user_data, setup_edit_mode_ui and
\* attributes_tab.set_attributes.
InitEdit ==
    /\ mode = "EDIT"
    /\ NoTemplates
    /\ NothingPending
    /\ user_data \in Snapshots
    /\ modified_attributes = {}
    /\ edit_text =
         [first_name_edit |-> Get(user_data, "givenName", VStr(<<>>)).s,
          job_title_edit |-> Get(user_data, "title", VStr(<<>>)).s,
          upn_edit |-> upn_prefix_of(Get(user_data, "userPrincipalName", VStr(<<>>)).s),
          new_password_edit |-> <<>>,
          confirm_password_edit |-> <<>>]
    /\ edit_chk =
         LET uac == Get(user_data, "userAccountControl", VInt(0)).n
         IN [disabled_chk |-> HasBit(uac, ADS_UF_ACCOUNTDISABLE),
             pwd_never_expires_chk |-> HasBit(uac, ADS_UF_DONT_EXPIRE_PASSWD),
             cannot_change_pwd_chk |-> HasBit(uac, ADS_UF_PASSWD_CANT_CHANGE),
             pwd_expired_chk |-> Get(user_data, "pwdLastSet", VStr(<<>>)) = VInt(0)]
    /\ edit_combo =
         LET upn_suffix == upn_suffix_of(Get(user_data, "userPrincipalName", VStr(<<>>)).s)
             suffix_idx == IndexOf(domain_suffixes(user_data), upn_suffix, 1)
         IN [upn_suffix_combo |-> IF upn_suffix # <<>> /\ suffix_idx > 0 THEN suffix_idx ELSE 1,
             country_combo |-> country_index(user_data)]
    /\ custom_attributes = set_attributes(user_data).attrs
    /\ modifications = EmptyDict
    /\ edits = 0
    /\ handler = ""
    /\ stack = <<>>
    /\ in_flight = 0
    /\ person = [first |-> <<>>, last |-> <<>>]
    /\ dir = EmptyDict
    /\ first_name_edit = <<>>
    /\ last_name_edit = <<>>
    /\ display_name_edit = <<>>
    /\ sam_account_edit = <<>>
    /\ upn_edit = <<>>
    /\ contractor_chk = FALSE
    /\ password_edit = <<>>
    /\ confirm_password_edit = <<>>
    /\ call = NoCall
    /\ placed = None
    /\ status_label = ""
    /\ writes = <<>>
    /\ write_conn = "none"
    /\ messages = <<>>
    /\ closed = FALSE

\* mark_as_modified adds the name to the flags already set
\* (mark_as_modified); a handler that rebound the dict would drop them.
mark_as_modified_replacing(attribute) ==
    modified_attributes' = {attribute}

mark_as_modified(attribute) ==
    modified_attributes' = modified_attributes \cup {attribute}

\* What every edit event of the session leaves alone.
EditFrame ==
    /\ edits' = edits + 1
    /\ modifications' = EmptyDict
    /\ handler' = "edit"
    /\ NoWrites
    /\ UNCHANGED <<createvars, pumpvars, tplvars, loopvars, mode, status_label>>

EditEnabled ==
    mode = "EDIT" /\ ~closed /\ edits < MaxEdits

\* A line edit of field_to_attr changes: textChanged -> mark_as_modified
EditLine ==
    \E f \in DOMAIN field_to_attr, t \in Texts :
        /\ EditEnabled
        /\ t # edit_text[f]
        /\ edit_text' = [edit_text EXCEPT ![f] = t]
        /\ mark_as_modified(field_to_attr[f])
        /\ EditFrame
        /\ UNCHANGED <<user_data, edit_chk, edit_combo, custom_attributes>>

\* new_password_edit or confirm_password_edit changes: no signal is connected
EditPassword ==
    \E f \in {"new_password_edit", "confirm_password_edit"}, t \in PasswordTexts :
        /\ EditEnabled
        /\ t # edit_text[f]
        /\ edit_text' = [edit_text EXCEPT ![f] = t]
        /\ EditFrame
        /\ UNCHANGED <<user_data, modified_attributes, edit_chk, edit_combo, custom_attributes>>

\* disabled_chk, pwd_never_expires_chk or cannot_change_pwd_chk toggles
ToggleAccountOption ==
    \E c \in {"disabled_chk", "pwd_never_expires_chk", "cannot_change_pwd_chk"} :
        /\ EditEnabled
        /\ edit_chk' = [edit_chk EXCEPT ![c] = ~edit_chk[c]]
        /\ mark_as_modified("userAccountControl")
        /\ EditFrame
        /\ UNCHANGED <<user_data, edit_text, edit_combo, custom_attributes>>

\* pwd_expired_chk toggles
TogglePwdExpired ==
    /\ EditEnabled
    /\ edit_chk' = [edit_chk EXCEPT !.pwd_expired_chk = ~edit_chk.pwd_expired_chk]
    /\ mark_as_modified("pwdLastSet")
    /\ EditFrame
    /\ UNCHANGED <<user_data, edit_text, edit_combo, custom_attributes>>

\* upn_suffix_combo.currentIndexChanged
SelectUpnSuffix ==
    \E i \in 1..Len(domain_suffixes(user_data)) :
        /\ EditEnabled
        /\ i # edit_combo.upn_suffix_combo
        /\ edit_combo' = [edit_combo EXCEPT !.upn_suffix_combo = i]
        /\ mark_as_modified("userPrincipalName")
        /\ EditFrame
        /\ UNCHANGED <<user_data, edit_text, edit_chk, custom_attributes>>

\* country_combo.currentIndexChanged
SelectCountry ==
    \E i \in 1..Len(countries) :
        /\ EditEnabled
        /\ i # edit_combo.country_combo
        /\ edit_combo' = [edit_combo EXCEPT !.country_combo = i]
        /\ mark_as_modified("country")
        /\ EditFrame
        /\ UNCHANGED <<user_data, edit_text, edit_chk, custom_attributes>>

(***************************************************************************)
(* src/attributes_tab.py                                                   *)
(***************************************************************************)
\* The rows of the attributes table the model selects.
TabRows ==
    {"givenName", "c", "employeeID", "logonCount", "otherTelephone", "info"}
        \cap DOMAIN user_data

\* str(value) for the scalar values of the model
StrOf(v) ==
    IF v.t = "int" THEN Str(v.n) ELSE v.s

\* [v for v in new_value if v.strip()]
NonBlank(lines) ==
    SelectSeq(lines, LAMBDA v : Strip(v) # <<>>)

\* The texts the administrator may leave in the edit dialog of a scalar:
\* the text shown, a new one, blanks, nothing.
DialogTexts(current_value) ==
    {StrOf(current_value), <<"n">>, <<" ", "n">>, <<" ">>, <<>>}

\* The lines he may leave in the dialog of a multi-valued attribute.
DialogLines(current_value) ==
    {current_value.l, << <<"n">> >>, << <<"n">>, <<" ">> >>, <<>>}

\* Lines 195-216 of edit_attribute, the dialog accepted with the given input.
edited_attributes(custom, attr_name, input) ==
    LET current_value == Get(custom, attr_name, VStr(<<>>))
    IN IF current_value.t = "list"
       THEN IF NonBlank(input) # <<>>
            THEN Put(custom, attr_name, VList(NonBlank(input)))
            ELSE Del(custom, attr_name)
       ELSE IF Strip(input) # <<>>
            THEN Put(custom, attr_name, VStr(Strip(input)))
            ELSE Del(custom, attr_name)

\* AttributesTab.edit_attribute (edit_button.clicked) on a selected row
edit_attribute ==
    \E attr_name \in TabRows, accepted \in BOOLEAN :
      LET current_value == Get(custom_attributes, attr_name, VStr(<<>>))
      IN \E input \in (IF current_value.t = "list" THEN DialogLines(current_value)
                       ELSE DialogTexts(current_value)) :
        /\ EditEnabled
        /\ custom_attributes' =
             IF accepted THEN edited_attributes(custom_attributes, attr_name, input)
             ELSE custom_attributes
        /\ user_data' = IF tab_aliases_snapshot THEN custom_attributes' ELSE user_data
        /\ EditFrame
        /\ UNCHANGED <<modified_attributes, edit_text, edit_chk, edit_combo>>

\* AttributesTab.clear_attribute (clear_button.clicked) on a selected row
clear_attribute ==
    \E attr_name \in TabRows :
        /\ EditEnabled
        /\ custom_attributes' = Del(custom_attributes, attr_name)
        /\ user_data' = IF tab_aliases_snapshot THEN custom_attributes' ELSE user_data
        /\ EditFrame
        /\ UNCHANGED <<modified_attributes, edit_text, edit_chk, edit_combo>>

(***************************************************************************)
(* UserWindow.save_changes                                                 *)
(***************************************************************************)
\* Lines 1152-1168 and 1216-1239: one replace per dirty line edit of the
\* given group, carrying the text of the field (text_modifications), whether
\* or not the text differs from the snapshot; a reconciler that diffed
\* values would leave out the fields whose text equals the snapshot.
text_modifications_if_changed(fields, dirty, text) ==
    [a \in {field_to_attr[f] :
              f \in {g \in fields :
                       /\ field_to_attr[g] \in dirty
                       /\ VStr(text[g]) # Get(user_data, field_to_attr[g], VStr(<<>>))}} |->
        VStr(text[CHOOSE f \in fields : field_to_attr[f] = a])]

text_modifications(fields, dirty, text) ==
    [a \in {field_to_attr[f] : f \in {g \in fields : field_to_attr[g] \in dirty}} |->
        VStr(text[CHOOSE f \in fields : field_to_attr[f] = a])]

\* Lines 1171-1175
upn_modifications(dirty, text, combo, snapshot) ==
    IF "userPrincipalName" \in dirty
    THEN [userPrincipalName |->
            VStr(text.upn_edit \o domain_suffixes(snapshot)[combo.upn_suffix_combo])]
    ELSE EmptyDict

\* Lines 1180-1196: the snapshot's bitmask with the three bits set or cleared
\* (uac_value); a value built from the check boxes alone, starting at 0,
\* would lose the other bits of the snapshot.
uac_value_from_zero(snapshot, chk) ==
    (IF chk.disabled_chk THEN ADS_UF_ACCOUNTDISABLE ELSE 0)
      + (IF chk.pwd_never_expires_chk THEN ADS_UF_DONT_EXPIRE_PASSWD ELSE 0)
      + (IF chk.cannot_change_pwd_chk THEN ADS_UF_PASSWD_CANT_CHANGE ELSE 0)

uac_value(snapshot, chk) ==
    LET uac0 == Get(snapshot, "userAccountControl", VInt(0)).n
        uac1 == IF chk.disabled_chk THEN SetBit(uac0, ADS_UF_ACCOUNTDISABLE)
                ELSE ClearBit(uac0, ADS_UF_ACCOUNTDISABLE)
        uac2 == IF chk.pwd_never_expires_chk THEN SetBit(uac1, ADS_UF_DONT_EXPIRE_PASSWD)
                ELSE ClearBit(uac1, ADS_UF_DONT_EXPIRE_PASSWD)
        uac3 == IF chk.cannot_change_pwd_chk THEN SetBit(uac2, ADS_UF_PASSWD_CANT_CHANGE)
                ELSE ClearBit(uac2, ADS_UF_PASSWD_CANT_CHANGE)
    IN uac3

\* Lines 1178-1198
uac_modifications(dirty, snapshot, chk) ==
    IF "userAccountControl" \in dirty
    THEN [userAccountControl |-> VInt(uac_value(snapshot, chk))]
    ELSE EmptyDict

\* Lines 1201-1205
pwd_last_set_modifications(dirty, chk) ==
    IF "pwdLastSet" \in dirty
    THEN [pwdLastSet |-> IF chk.pwd_expired_chk THEN VInt(0) ELSE VInt(-1)]
    ELSE EmptyDict

\* Lines 1208-1209
password_modifications(text) ==
    IF text.new_password_edit # <<>> /\ text.new_password_edit = text.confirm_password_edit
    THEN [unicodePwd |-> VBytes(encode_password(text.new_password_edit))]
    ELSE EmptyDict

\* Lines 1210-1213: the early return when the new password is not empty and
\* differs from its confirmation (password_mismatch); without that branch a
\* save with differing passwords would go on to the modify.
password_mismatch_ignored(text) ==
    FALSE

password_mismatch(text) ==
    text.new_password_edit # <<>> /\ text.new_password_edit # text.confirm_password_edit

\* Lines 1241-1249: c, co and countryCode all come from the item selected
\* in country_combo (country_modifications); were the display name read from
\* the first item instead, the three would not describe one country.
country_modifications_first_name(dirty, combo) ==
    IF "country" \in dirty /\ combo.country_combo >= 1
    THEN [c |-> VStr(<<countries[combo.country_combo][2]>>),
          co |-> VStr(<<countries[1][1]>>),
          countryCode |-> VStr(<<countries[combo.country_combo][3]>>)]
    ELSE EmptyDict

country_modifications(dirty, combo) ==
    IF "country" \in dirty /\ combo.country_combo >= 1
    THEN [c |-> VStr(<<countries[combo.country_combo][2]>>),
          co |-> VStr(<<countries[combo.country_combo][1]>>),
          countryCode |-> VStr(<<countries[combo.country_combo][3]>>)]
    ELSE EmptyDict

\* Lines 1252-1266: the attributes of the tab that differ from the snapshot
\* and that the form does not handle (custom_modifications); without the
\* skip list the tab would also write the attributes of the form.
custom_modifications_unfiltered(mods, custom, snapshot) ==
    [a \in {x \in DOMAIN custom :
              /\ x \notin DOMAIN mods
              /\ custom[x] # Get(snapshot, x, VStr(<<>>))} |-> custom[a]]

custom_modifications(mods, custom, snapshot) ==
    [a \in {x \in DOMAIN custom :
              /\ x \notin DOMAIN mods
              /\ x \notin HandledElsewhere
              /\ custom[x] # Get(snapshot, x, VStr(<<>>))} |-> custom[a]]

\* The dict built by lines 1149-1205, before the password check
modifications_before_password(dirty, text, chk, combo, snapshot) ==
    Update(Update(Update(text_modifications(PersonalFields, dirty, text),
                         upn_modifications(dirty, text, combo, snapshot)),
                  uac_modifications(dirty, snapshot, chk)),
           pwd_last_set_modifications(dirty, chk))

\* The dict built by lines 1149-1266 when the passwords do not mismatch:
\* the form's replaces and then the attributes tab's (all_modifications).  A
\* save that left out lines 1251-1266 would send the form's replaces only.
all_modifications_of_the_form(dirty, text, chk, combo, custom, snapshot) ==
    Update(Update(Update(
        modifications_before_password(dirty, text, chk, combo, snapshot),
        password_modifications(text)),
        text_modifications(JobFields, dirty, text)),
        country_modifications(dirty, combo))

all_modifications(dirty, text, chk, combo, custom, snapshot) ==
    LET form == Update(Update(Update(
                    modifications_before_password(dirty, text, chk, combo, snapshot),
                    password_modifications(text)),
                    text_modifications(JobFields, dirty, text)),
                    country_modifications(dirty, combo))
    IN Update(form, custom_modifications(form, custom, snapshot))

\* Line 1269: "if modifications:" (has_modifications); a save that did not
\* test the dict would send the empty dict too.
has_modifications_untested(mods) ==
    TRUE

has_modifications(mods) ==
    mods # EmptyDict

\* UserWindow.save_changes (save_button.clicked)
save_changes ==
    /\ mode = "EDIT"
    /\ ~closed
    /\ IF password_mismatch(edit_text)
       THEN /\ modifications' = modifications_before_password(
                    modified_attributes, edit_text, edit_chk, edit_combo, user_data)
            /\ messages' = <<"Password Mismatch">>
            /\ status_label' = "Password mismatch"
            /\ writes' = <<>>
            /\ closed' = FALSE
       ELSE /\ modifications' = all_modifications(
                    modified_attributes, edit_text, edit_chk, edit_combo,
                    custom_attributes, user_data)
            /\ IF has_modifications(modifications')
               THEN \E outcome \in WriteOutcome :
                      /\ writes' = <<[op |-> "modify", changes |-> modifications',
                                      outcome |-> outcome]>>
                      /\ status_label' = CASE outcome = "ok" -> "Changes saved successfully"
                                           [] outcome = "fail" -> "Save failed"
                                           [] outcome = "raise" -> "Error saving changes"
                      /\ messages' = CASE outcome = "ok" -> <<>>
                                       [] outcome = "fail" -> <<"Save Failed">>
                                       [] outcome = "raise" -> <<"Error">>
                      /\ closed' = (outcome = "ok")
               ELSE /\ writes' = <<>>
                    /\ status_label' = "No changes to save"
                    /\ messages' = <<>>
                    /\ closed' = FALSE
    /\ write_conn' = "none"
    /\ handler' = "save_changes"
    /\ UNCHANGED <<createvars, pumpvars, tplvars, loopvars, mode, user_data, modified_attributes, edit_text,
                   edit_chk, edit_combo, custom_attributes, edits>>

NextEdit ==
    \/ EditLine
    \/ EditPassword
    \/ ToggleAccountOption
    \/ TogglePwdExpired
    \/ SelectUpnSuffix
    \/ SelectCountry
    \/ edit_attribute
    \/ clear_attribute
    \/ save_changes

SpecEdit ==
    InitEdit /\ [][NextEdit]_vars

(***************************************************************************)
(* LoginWindow.login (src/Login.py).  The login window shares the          *)
(* variables of the user window: status_label is its status label, writes  *)
(* the directory calls of the last login, write_conn its connection.       *)
(***************************************************************************)
\* The login window after construction.
InitLogin ==
    /\ mode = "LOGIN"
    /\ NoTemplates
    /\ NothingPending
    /\ user_data = EmptyDict
    /\ modified_attributes = {}
    /\ edit_text = <<>>
    /\ edit_chk = <<>>
    /\ edit_combo = <<>>
    /\ custom_attributes = EmptyDict
    /\ modifications = EmptyDict
    /\ edits = 0
    /\ handler = ""
    /\ stack = <<>>
    /\ in_flight = 0
    /\ person = [first |-> <<>>, last |-> <<>>]
    /\ dir = EmptyDict
    /\ first_name_edit = <<>>
    /\ last_name_edit = <<>>
    /\ display_name_edit = <<>>
    /\ sam_account_edit = <<>>
    /\ upn_edit = <<>>
    /\ contractor_chk = FALSE
    /\ password_edit = <<>>
    /\ confirm_password_edit = <<>>
    /\ call = NoCall
    /\ placed = None
    /\ status_label = ""
    /\ writes = <<>>
    /\ write_conn = "none"
    /\ messages = <<>>
    /\ closed = FALSE

\* Python's "sub in s" on strings.
contains(sub, s) ==
    \E i \in 0..(Len(s) - Len(sub)) : SubSeq(s, i + 1, i + Len(sub)) = sub

CN_Domain_Admins ==
    <<"C","N","=","D","o","m","a","i","n"," ","A","d","m","i","n","s">>

CN_Enterprise_Admins ==
    <<"C","N","=","E","n","t","e","r","p","r","i","s","e"," ","A","d","m","i","n","s">>

\* The distinguished names the directory may return in memberOf: the two
\* administrator groups, two other groups, and a group whose name only
\* begins like Domain Admins.
GroupDNs ==
    { CN_Domain_Admins \o <<",","C","N","=","U","s","e","r","s">>,
      CN_Enterprise_Admins \o <<",","C","N","=","U","s","e","r","s">>,
      <<"C","N","=","D","o","m","a","i","n"," ","U","s","e","r","s",",","C","N","=","U","s","e","r","s">>,
      <<"C","N","=","S","t","a","f","f",",","O","U","=","G">>,
      CN_Domain_Admins \o <<" ","A","u","d","i","t",",","O","U","=","G">> }

\* The entries a search for the user may return: none, an entry without
\* memberOf, an entry with up to two groups.
Entries ==
    {<<>>, <<EmptyDict>>}
        \cup { <<[memberOf |-> <<g>>]>> : g \in GroupDNs }
        \cup { <<[memberOf |-> <<g, h>>]>> : g \in GroupDNs, h \in GroupDNs }

\* Lines 340-342.
is_admin(entry) ==
    LET groups == IF "memberOf" \in DOMAIN entry THEN entry.memberOf ELSE <<>>
    IN \E i \in 1..Len(groups) :
           \/ contains(CN_Domain_Admins, groups[i])
           \/ contains(CN_Enterprise_Admins, groups[i])

\* The pending open_browser_window callbacks the model follows at once.
MaxTimers ==
    2

\* What a login that stops before the bind leaves behind.
login_rejected(message, status) ==
    /\ writes' = <<>>
    /\ write_conn' = "none"
    /\ messages' = <<message>>
    /\ status_label' = status
    /\ timers' = timers

\* Lines 303-353: the bind, the search and the group test; an administrator
\* gets open_browser_window scheduled (line 347).
login_calls ==
    \E bind \in {"ok", "raise"} :
      IF bind = "raise"
      THEN /\ writes' = <<[op |-> "bind", outcome |-> "raise"]>>
           /\ write_conn' = "none"
           /\ messages' = <<"Authentication Failed">>
           /\ status_label' = "Authentication failed"
           /\ timers' = timers
      ELSE \E search \in {"ok", "raise"}, entries \in Entries :
           /\ writes' = <<[op |-> "bind", outcome |-> "ok"],
                          [op |-> "search", outcome |-> search,
                           entries |-> IF search = "ok" THEN entries ELSE <<>>]>>
           /\ write_conn' = "unbound"
           /\ CASE search = "raise" ->
                     /\ messages' = <<"Search Error">>
                     /\ status_label' = "Search error"
                     /\ timers' = timers
                [] search = "ok" /\ entries = <<>> ->
                     /\ messages' = <<"User Not Found">>
                     /\ status_label' = "User not found"
                     /\ timers' = timers
                [] search = "ok" /\ entries # <<>> /\ ~is_admin(entries[1]) ->
                     /\ messages' = <<"Authorization Failed">>
                     /\ status_label' = "Authorization failed"
                     /\ timers' = timers
                [] search = "ok" /\ entries # <<>> /\ is_admin(entries[1]) ->
                     /\ messages' = <<>>
                     /\ status_label' = "Authentication successful"
                     /\ timers' = timers + 1

\* LoginWindow.login (login button, or Return in the password field)
login ==
    /\ mode = "LOGIN"
    /\ ~closed
    /\ timers < MaxTimers
    /\ \E domain_ok \in BOOLEAN, dc_ok \in BOOLEAN, filled \in BOOLEAN,
          server \in {"ok", "raise"} :
         IF ~domain_ok THEN login_rejected("Input Error", "Login failed")
         ELSE IF ~dc_ok THEN login_rejected("Input Error", "Login failed")
         ELSE IF ~filled THEN login_rejected("Input Error", "Authentication failed")
         ELSE IF server = "raise" THEN login_rejected("Server Error", "Connection error")
         ELSE login_calls
    /\ handler' = "login"
    /\ UNCHANGED <<createvars, pumpvars, tplvars, events, browser, closed, mode,
                   user_data, modified_attributes, edit_text, edit_chk, edit_combo,
                   custom_attributes, modifications, edits>>

\* LoginWindow.open_browser_window, the callback of the timer of line 347:
\* the browser is built and shown and the login window closed.
open_browser_window ==
    /\ mode = "LOGIN"
    /\ timers > 0
    /\ timers' = timers - 1
    /\ browser' = "shown"
    /\ closed' = TRUE
    /\ UNCHANGED <<createvars, editvars, pumpvars, tplvars, events, mode, status_label,
                   writes, write_conn, messages>>

\* The login window on its own.
NextLogin ==
    login \/ open_browser_window

SpecLogin ==
    InitLogin /\ [][NextLogin]_vars

(***************************************************************************)
(* Re-entrancy.  QApplication.processEvents() and the modal message boxes  *)
(* dispatch pending events from inside a handler, so handlers nest; the    *)
(* ldap3 calls are synchronous and dispatch nothing.  Here a handler is    *)
(* one of its paths: the sequence of directory calls and dispatch points   *)
(* it goes through.  The form data is left as it is; which path a handler  *)
(* takes is open, which covers every branch the data can select.  A loop   *)
(* of searches is one or two searches.                                     *)
(***************************************************************************)
\* The steps at which a handler lets the event loop run: processEvents()
\* and QMessageBox.
pump_points ==
    {"processEvents", "QMessageBox"}

\* The directory calls.
directory_calls ==
    {"search", "bind", "add", "modify", "unbind"}

\* auto_update_fields: nothing to generate; processEvents (line 599) and
\* the searches of the generator (line 601).
auto_update_fields_paths ==
    { <<>>,
      <<"processEvents", "search">>,
      <<"processEvents", "search", "search">> }

\* create_user: a missing field; no name generated; the bind raises; the
\* add is refused; the add raises; the add succeeds and a membership modify
\* raises before the last one.
create_user_paths ==
    { <<"processEvents", "QMessageBox">>,
      <<"processEvents", "search", "search", "QMessageBox">>,
      <<"processEvents", "search", "bind", "QMessageBox">>,
      <<"processEvents", "bind", "processEvents", "add", "unbind", "QMessageBox">>,
      <<"processEvents", "search", "bind", "processEvents", "add", "QMessageBox">>,
      <<"processEvents", "bind", "processEvents", "add", "modify", "modify",
        "QMessageBox", "modify", "unbind">> }

\* save_changes: nothing to save; differing passwords; the modify succeeds;
\* the modify fails.
save_changes_paths ==
    { <<"processEvents">>,
      <<"processEvents", "QMessageBox">>,
      <<"processEvents", "modify">>,
      <<"processEvents", "modify", "QMessageBox">> }

\* login: an input error; the bind raises; the search raises or finds
\* nobody; an administrator; not an administrator.
login_paths ==
    { <<"processEvents", "QMessageBox">>,
      <<"processEvents", "bind", "QMessageBox">>,
      <<"processEvents", "bind", "search", "QMessageBox", "unbind">>,
      <<"processEvents", "bind", "search", "unbind">>,
      <<"processEvents", "bind", "search", "unbind", "QMessageBox">> }

\* GroupsTab.load_domain_groups, started by the refresh button: no
\* connection; the search of the groups; the search raises.
load_domain_groups_paths ==
    { <<"QMessageBox">>,
      <<"search">>,
      <<"search", "QMessageBox">> }

\* The paths of each handler.
program ==
    [auto_update_fields |-> auto_update_fields_paths,
     update_contractor_status |-> auto_update_fields_paths,
     create_user |-> create_user_paths,
     save_changes |-> save_changes_paths,
     login |-> login_paths,
     load_domain_groups |-> load_domain_groups_paths]

\* The handlers the events of a window can start.
handlers_of(m) ==
    CASE m = "CREATE" -> {"auto_update_fields", "update_contractor_status", "create_user",
                          "load_domain_groups"}
      [] m = "EDIT" -> {"save_changes"}
      [] m = "LOGIN" -> {"login"}

MaxDepth ==
    3

\* The step a frame is at.
step_of(frame) ==
    frame.path[frame.pc]

\* A handler that is inside a step lets events be dispatched exactly when
\* the step is a dispatch point (may_dispatch); a directory call that ran
\* the event loop while waiting would let them in at any step.
may_dispatch_in_any_step(frame) ==
    frame.busy

may_dispatch(frame) ==
    frame.busy /\ step_of(frame) \in pump_points

\* An event starts a handler: from the idle event loop, or from a dispatch
\* point of the handler that is running.
Dispatch ==
    \E h \in handlers_of(mode) : \E path \in program[h] :
        /\ Len(stack) < MaxDepth
        /\ IF stack = <<>> THEN TRUE ELSE may_dispatch(stack[Len(stack)])
        /\ stack' = Append(stack, [h |-> h, path |-> path, pc |-> 1, busy |-> FALSE])
        /\ UNCHANGED in_flight
        /\ UNCHANGED <<createvars, editvars, tplvars, loopvars, mode, status_label, writes, write_conn,
                       messages, closed>>

\* The running handler enters its next step.
BeginStep ==
    /\ stack # <<>>
    /\ LET top == stack[Len(stack)]
       IN /\ ~top.busy
          /\ top.pc <= Len(top.path)
          /\ stack' = [stack EXCEPT ![Len(stack)].busy = TRUE]
          /\ in_flight' = IF step_of(top) \in directory_calls
                          THEN in_flight + 1 ELSE in_flight
    /\ UNCHANGED <<createvars, editvars, tplvars, loopvars, mode, status_label, writes, write_conn,
                   messages, closed>>

\* The step the running handler is in comes back: the directory call
\* returns or raises, processEvents returns, the message box is closed.
EndStep ==
    /\ stack # <<>>
    /\ LET top == stack[Len(stack)]
       IN /\ top.busy
          /\ stack' = [stack EXCEPT ![Len(stack)] =
                          [h |-> top.h, path |-> top.path, pc |-> top.pc + 1,
                           busy |-> FALSE]]
          /\ in_flight' = IF step_of(top) \in directory_calls
                          THEN in_flight - 1 ELSE in_flight
    /\ UNCHANGED <<createvars, editvars, tplvars, loopvars, mode, status_label, writes, write_conn,
                   messages, closed>>

\* The running handler returns at the end of its path.
Return ==
    /\ stack # <<>>
    /\ ~stack[Len(stack)].busy
    /\ stack[Len(stack)].pc > Len(stack[Len(stack)].path)
    /\ stack' = SubSeq(stack, 1, Len(stack) - 1)
    /\ UNCHANGED in_flight
    /\ UNCHANGED <<createvars, editvars, tplvars, loopvars, mode, status_label, writes, write_conn,
                   messages, closed>>

\* One window of each kind, just built.
InitPump ==
    \/ InitLogin
    \/ InitEdit
    \/ /\ InitWin
       /\ person = [first |-> <<"J","o">>, last |-> <<"D","o","e">>]
       /\ \A n \in DOMAIN dir : dir[n] = "free"

NextPump ==
    Dispatch \/ BeginStep \/ EndStep \/ Return

SpecPump ==
    InitPump /\ [][NextPump]_vars

(***************************************************************************)
(* Templates (src/UserEditor/templates.py).  A Python value and a JSON     *)
(* value are records of one shape; t is the Python type or the JSON kind.  *)
(* A dict and a JSON object are sequences of <<key, value>> pairs in       *)
(* insertion order, the keys being strings.  A file is missing, or holds   *)
(* text that is not JSON, or holds a JSON document.                        *)
(***************************************************************************)
PyStr(s) ==
    [t |-> "str", s |-> s, n |-> 0, l |-> <<>>]

PyInt(n) ==
    [t |-> "int", s |-> "", n |-> n, l |-> <<>>]

PyBool(b) ==
    [t |-> "bool", s |-> "", n |-> IF b THEN 1 ELSE 0, l |-> <<>>]

PyNone ==
    [t |-> "NoneType", s |-> "", n |-> 0, l |-> <<>>]

PyList(l) ==
    [t |-> "list", s |-> "", n |-> 0, l |-> l]

PyTuple(l) ==
    [t |-> "tuple", s |-> "", n |-> 0, l |-> l]

PyDict(pairs) ==
    [t |-> "dict", s |-> "", n |-> 0, l |-> pairs]

JString(s) ==
    [t |-> "string", s |-> s, n |-> 0, l |-> <<>>]

JNumber(n) ==
    [t |-> "number", s |-> "", n |-> n, l |-> <<>>]

JTrue ==
    [t |-> "true", s |-> "", n |-> 0, l |-> <<>>]

JFalse ==
    [t |-> "false", s |-> "", n |-> 0, l |-> <<>>]

JNull ==
    [t |-> "null", s |-> "", n |-> 0, l |-> <<>>]

JArray(l) ==
    [t |-> "array", s |-> "", n |-> 0, l |-> l]

JObject(pairs) ==
    [t |-> "object", s |-> "", n |-> 0, l |-> pairs]

\* k in d, for the pairs d of a dict
HasKey(d, k) ==
    \E i \in 1..Len(d) : d[i][1] = k

\* d[k]
Item(d, k) ==
    d[CHOOSE i \in 1..Len(d) : d[i][1] = k][2]

\* d[k] = v: a present key keeps its place, a new key goes last.
SetItem(d, k, v) ==
    IF HasKey(d, k)
    THEN [i \in 1..Len(d) |-> IF d[i][1] = k THEN <<k, v>> ELSE d[i]]
    ELSE Append(d, <<k, v>>)

\* del d[k]
DelItem(d, k) ==
    SelectSeq(d, LAMBDA p : p[1] # k)

\* json.dump: what the encoder writes for a Python value.  A tuple is
\* written as an array, as a list is.
RECURSIVE json_dump(_)
json_dump(v) ==
    CASE v.t = "str" -> JString(v.s)
      [] v.t = "int" -> JNumber(v.n)
      [] v.t = "bool" -> IF v.n = 1 THEN JTrue ELSE JFalse
      [] v.t = "NoneType" -> JNull
      [] v.t \in {"list", "tuple"} -> JArray([i \in 1..Len(v.l) |-> json_dump(v.l[i])])
      [] v.t = "dict" ->
           JObject([i \in 1..Len(v.l) |-> <<v.l[i][1], json_dump(v.l[i][2])>>])

\* json.load: the Python value the decoder builds for a JSON document.
RECURSIVE json_load(_)
json_load(j) ==
    CASE j.t = "string" -> PyStr(j.s)
      [] j.t = "number" -> PyInt(j.n)
      [] j.t = "true" -> PyBool(TRUE)
      [] j.t = "false" -> PyBool(FALSE)
      [] j.t = "null" -> PyNone
      [] j.t = "array" -> PyList([i \in 1..Len(j.l) |-> json_load(j.l[i])])
      [] j.t = "object" ->
           PyDict([i \in 1..Len(j.l) |-> <<j.l[i][1], json_load(j.l[i][2])>>])

\* UserTemplate(name, settings)
UserTemplate(name, settings) ==
    [name |-> name, settings |-> settings]

\* UserTemplate.to_dict
to_dict(template) ==
    PyDict(<< <<"name", template.name>>, <<"settings", template.settings>> >>)

\* UserTemplate.from_dict: data["name"] and data["settings"]; "" for no
\* exception.
from_dict_raises(data) ==
    IF data.t # "dict" THEN "TypeError"
    ELSE IF ~HasKey(data.l, "name") \/ ~HasKey(data.l, "settings") THEN "KeyError"
    ELSE ""

from_dict(data) ==
    UserTemplate(Item(data.l, "name"), Item(data.l, "settings"))

\* The file json.dump(data, f) leaves.
written(data) ==
    [exists |-> TRUE, valid |-> TRUE, doc |-> json_dump(data)]

\* {name: template.to_dict() for name, template in self.templates.items()}
serialized(tpls) ==
    PyDict([i \in 1..Len(tpls) |-> <<tpls[i][1], to_dict(tpls[i][2])>>])

\* The first entry of the loaded dict from_dict raises on, 0 for none.
first_bad(pairs) ==
    IF \E i \in 1..Len(pairs) : from_dict_raises(pairs[i][2]) # ""
    THEN CHOOSE i \in 1..Len(pairs) :
            /\ from_dict_raises(pairs[i][2]) # ""
            /\ \A k \in 1..(i - 1) : from_dict_raises(pairs[k][2]) = ""
    ELSE 0

\* self.templates after "self.templates[name] = from_dict(template_data)"
\* for the first n entries.
RECURSIVE stored(_, _, _)
stored(tpls, pairs, n) ==
    IF n = 0 THEN tpls
    ELSE SetItem(stored(tpls, pairs, n - 1), pairs[n][1], from_dict(pairs[n][2]))

\* TemplateManager.load_templates: the exception that leaves it ("" for
\* none) and the dict it returns.
load_templates(f) ==
    IF ~f.exists \/ ~f.valid THEN [raised |-> "", templates |-> <<>>]
    ELSE LET data == json_load(f.doc) IN
         IF data.t # "dict" THEN [raised |-> "AttributeError", templates |-> <<>>]
         ELSE IF first_bad(data.l) # 0
              THEN [raised |-> from_dict_raises(data.l[first_bad(data.l)][2]),
                    templates |-> <<>>]
              ELSE [raised |-> "", templates |-> stored(<<>>, data.l, Len(data.l))]

\* TemplateManager.import_templates: FileNotFoundError, JSONDecodeError and
\* KeyError leave as Exception, anything else as it is; the entries before
\* the one that raises are already in self.templates.
import_templates_result(tpls, f) ==
    IF ~f.exists \/ ~f.valid
    THEN [raised |-> "Exception", templates |-> tpls, imported |-> 0]
    ELSE LET data == json_load(f.doc) IN
         IF data.t # "dict"
         THEN [raised |-> "AttributeError", templates |-> tpls, imported |-> 0]
         ELSE LET bad == first_bad(data.l) IN
              IF bad # 0
              THEN [raised |-> IF from_dict_raises(data.l[bad][2]) = "KeyError"
                               THEN "Exception" ELSE "TypeError",
                    templates |-> stored(tpls, data.l, bad - 1),
                    imported |-> bad - 1]
              ELSE [raised |-> "", templates |-> stored(tpls, data.l, Len(data.l)),
                    imported |-> Len(data.l)]

\* The names QInputDialog.getText gives save_current_as_template, and the
\* names the manage dialog can be asked to delete.
TemplateNames ==
    {"a", "b"}

\* country_combo.currentData(): None for no country, or the tuple
\* (country_code, country_num) of line 300.
CountryData ==
    {PyNone, PyTuple(<<PyStr("US"), PyInt(840)>>)}

\* Lines 676-693: the settings save_current_as_template collects from a
\* form with company "Acme", the group "Staff" selected and no OU.
current_settings(country) ==
    PyDict(<< <<"company", PyStr("Acme")>>,
              <<"department", PyStr("")>>,
              <<"jobTitle", PyStr("")>>,
              <<"ou", PyNone>>,
              <<"street", PyStr("")>>,
              <<"city", PyStr("")>>,
              <<"state", PyStr("")>>,
              <<"postalCode", PyStr("")>>,
              <<"country", country>>,
              <<"passwordOptions", PyDict(<< <<"mustChange", PyBool(FALSE)>>,
                                              <<"neverExpires", PyBool(TRUE)>> >>)>>,
              <<"selectedGroups", PyList(<<PyStr("Staff")>>)>>,
              <<"isContractor", PyBool(FALSE)>>,
              <<"customAttributes", PyDict(<<>>)>> >>)

\* A well-formed entry of a template file, as a JSON value.
Entry(name) ==
    JObject(<< <<"name", JString(name)>>,
               <<"settings", JObject(<< <<"company", JString("Acme")>> >>)>> >>)

\* The files a template manager can meet: none, text that is not JSON,
\* JSON of another shape, entries lacking a key, and well-formed files.
Files ==
    { MissingFile,
      [exists |-> TRUE, valid |-> FALSE, doc |-> <<>>],
      [exists |-> TRUE, valid |-> TRUE, doc |-> JArray(<<>>)],
      [exists |-> TRUE, valid |-> TRUE, doc |-> JString("a")],
      [exists |-> TRUE, valid |-> TRUE, doc |-> JObject(<<>>)],
      [exists |-> TRUE, valid |-> TRUE, doc |-> JObject(<< <<"a", JString("a")>> >>)],
      [exists |-> TRUE, valid |-> TRUE, doc |->
          JObject(<< <<"a", JObject(<< <<"name", JString("a")>> >>)>> >>)],
      [exists |-> TRUE, valid |-> TRUE, doc |->
          JObject(<< <<"b", Entry("b")>>,
                     <<"a", JObject(<< <<"settings", JObject(<<>>)>> >>)>> >>)],
      [exists |-> TRUE, valid |-> TRUE, doc |-> JObject(<< <<"a", Entry("a")>> >>)],
      [exists |-> TRUE, valid |-> TRUE, doc |-> JObject(<< <<"a", Entry("b")>> >>)] }

\* A call of the template manager: its argument, the exception that left
\* it ("" for none), what it returned and self.templates before it; normal
\* says that no call of this manager has raised so far.
TemplateCall(op, arg, raised, returned, before) ==
    [op |-> op, arg |-> arg, raised |-> raised,
     normal |-> tpl_call.normal /\ raised = "",
     returned |-> returned, before |-> before]

\* What no template operation changes.
TemplateFrame ==
    UNCHANGED <<createvars, editvars, pumpvars, loopvars, mode, status_label,
                writes, write_conn, messages, closed>>

\* TemplateManager.__init__ (line 44 of user_window.py builds it).
TemplateManager ==
    /\ manager = "none"
    /\ LET r == load_templates(file) IN
          /\ manager' = IF r.raised = "" THEN "built" ELSE "raised"
          /\ templates' = r.templates
          /\ tpl_call' = TemplateCall("__init__", "", r.raised, PyNone, <<>>)
    /\ UNCHANGED <<file, export_file, exported>>
    /\ TemplateFrame

\* TemplateManager.save_templates: the file after it.
save_templates(tpls) ==
    written(serialized(tpls))

\* TemplateManager.add_template
add_template(tpls, template) ==
    SetItem(tpls, template.name.s, template)

\* UserWindow.save_current_as_template with a name given: the template of
\* the form's settings is added and saved.
save_current_as_template ==
    \E name \in TemplateNames, country \in CountryData :
        /\ manager = "built"
        /\ templates' = add_template(templates, UserTemplate(PyStr(name), current_settings(country)))
        /\ file' = save_templates(templates')
        /\ tpl_call' = TemplateCall("add_template", name, "", PyNone, templates)
        /\ UNCHANGED <<manager, export_file, exported>>
        /\ TemplateFrame

\* TemplateManager.delete_template: a present name is deleted and the
\* templates are saved (delete_template).  Without line 131 the file would
\* keep the deleted template.
delete_template_unsaved ==
    \E name \in TemplateNames :
        /\ manager = "built"
        /\ IF HasKey(templates, name)
           THEN /\ templates' = DelItem(templates, name)
                /\ tpl_call' = TemplateCall("delete_template", name, "", PyBool(TRUE), templates)
                /\ UNCHANGED file
           ELSE /\ tpl_call' = TemplateCall("delete_template", name, "", PyBool(FALSE), templates)
                /\ UNCHANGED <<templates, file>>
        /\ UNCHANGED <<manager, export_file, exported>>
        /\ TemplateFrame

delete_template ==
    \E name \in TemplateNames \cup {"c"} :
        /\ manager = "built"
        /\ IF HasKey(templates, name)
           THEN /\ templates' = DelItem(templates, name)
                /\ file' = save_templates(templates')
                /\ tpl_call' = TemplateCall("delete_template", name, "", PyBool(TRUE), templates)
           ELSE /\ tpl_call' = TemplateCall("delete_template", name, "", PyBool(FALSE), templates)
                /\ UNCHANGED <<templates, file>>
        /\ UNCHANGED <<manager, export_file, exported>>
        /\ TemplateFrame

\* TemplateManager.export_templates
export_templates ==
    /\ manager = "built"
    /\ export_file' = written(serialized(templates))
    /\ exported' = [done |-> TRUE, templates |-> templates]
    /\ tpl_call' = TemplateCall("export_templates", "", "", PyNone, templates)
    /\ UNCHANGED <<manager, templates, file>>
    /\ TemplateFrame

\* TemplateManager.import_templates
import_templates ==
    /\ manager = "built"
    /\ LET r == import_templates_result(templates, export_file) IN
          /\ templates' = r.templates
          /\ file' = IF r.raised = "" THEN save_templates(templates') ELSE file
          /\ tpl_call' = TemplateCall("import_templates", "", r.raised,
                                      IF r.raised = "" THEN PyInt(r.imported) ELSE PyNone,
                                      templates)
    /\ UNCHANGED <<manager, export_file, exported>>
    /\ TemplateFrame

\* The application is started again: a new TemplateManager loads the file
\* the last one left.
load_templates_again ==
    /\ manager = "built"
    /\ LET r == load_templates(file) IN
          /\ manager' = IF r.raised = "" THEN "built" ELSE "raised"
          /\ templates' = r.templates
          /\ tpl_call' = TemplateCall("load_templates", "", r.raised, PyNone, templates)
    /\ UNCHANGED <<file, export_file, exported>>
    /\ TemplateFrame

\* A create window before its template manager is built, over any template
\* file and any file to import.
InitTpl ==
    /\ person = [first |-> <<"J","o">>, last |-> <<"D","o","e">>]
    /\ dir = [n \in Universe(person) |-> "free"]
    /\ FormAfterConstruction
    /\ manager = "none"
    /\ templates = <<>>
    /\ file \in Files
    /\ export_file \in Files
    /\ exported = NotExported
    /\ tpl_call = NoTemplateCall
    /\ NothingPending

NextTpl ==
    \/ TemplateManager
    \/ save_current_as_template
    \/ delete_template
    \/ export_templates
    \/ import_templates
    \/ load_templates_again

SpecTpl ==
    InitTpl /\ [][NextTpl]_vars

(***************************************************************************)
(* The sanitization of a candidate on its own (lines 64-70 of              *)
(* src/UserEditor/helpers.py), applied to a candidate and then to its own  *)
(* result.  call.last keeps the candidate, call.first what the last        *)
(* application was given.                                                  *)
(***************************************************************************)
\* Characters inside and outside valid_chars.
CandidateChars ==
    {"a", "1", ".", "_", " ", "'", "A", "e^"}

MaxTailLen ==
    2

\* The strings of at most n characters.
RECURSIVE StringsUpTo(_)
StringsUpTo(n) ==
    IF n = 0 THEN {<<>>}
    ELSE StringsUpTo(n - 1)
         \cup {Append(t, c) : t \in StringsUpTo(n - 1), c \in CandidateChars}

\* Candidates around the limit of 20 characters, and short ones.
Candidates ==
    {Rep("b", k) \o t : k \in {0, 18, 19, 20, 21}, t \in StringsUpTo(MaxTailLen)}

SanitizeFrame ==
    /\ placed' = None
    /\ NoWrites
    /\ UNCHANGED <<mode, editvars, pumpvars, tplvars, loopvars>>
    /\ UNCHANGED <<password_edit, confirm_password_edit, person, dir, first_name_edit,
                   last_name_edit, display_name_edit, sam_account_edit, upn_edit,
                   contractor_chk, status_label>>

\* The sanitization of a candidate.
SanitizeCandidate ==
    \E candidate \in Candidates :
        /\ call.fn = "none"
        /\ call' = MkCall("sanitize", "candidate", candidate, candidate, TRUE,
                          [result |-> sanitize(candidate), queried |-> <<>>,
                           raised |-> FALSE])
        /\ SanitizeFrame

\* The sanitization of what the sanitization returned.
SanitizeAgain ==
    /\ call.fn = "sanitize" /\ call.by = "candidate"
    /\ call' = MkCall("sanitize", "sanitized", call.result, call.last, TRUE,
                      [result |-> sanitize(call.result), queried |-> <<>>,
                       raised |-> FALSE])
    /\ SanitizeFrame

InitSan ==
    /\ person = [first |-> <<"J","o">>, last |-> <<"D","o","e">>]
    /\ dir = [n \in Universe(person) |-> "free"]
    /\ FormAfterConstruction
    /\ NoTemplates
    /\ NothingPending

NextSan ==
    SanitizeCandidate \/ SanitizeAgain

SpecSan ==
    InitSan /\ [][NextSan]_vars

(***************************************************************************)
(* The name fields under the event loop.  A key pressed in a name field    *)
(* waits in the event loop until it is delivered; its delivery changes the *)
(* field and textChanged calls auto_update_fields (lines 347-348).  The    *)
(* handler reads the two names, then lets the event loop run               *)
(* (processEvents, line 599), which delivers the waiting keys and so runs  *)
(* the handler again inside itself, and generates only afterwards.  A      *)
(* frame of stack is an auto_update_fields waiting in processEvents with   *)
(* the names it read.                                                      *)
(***************************************************************************)
\* The texts a key leaves in the first and in the last name field.
TypedFirst ==
    {<<>>, <<"J","o">>}

TypedLast ==
    {<<>>, <<"D","o">>, <<"D","o","e">>}

\* The keys the event loop holds at once.
MaxPending ==
    2

\* The administrator presses a key in a name field.
KeyPress ==
    /\ mode = "CREATE"
    /\ ~closed
    /\ Len(events) < MaxPending
    /\ \E e \in {[field |-> "first_name_edit", text |-> t] : t \in TypedFirst}
               \cup {[field |-> "last_name_edit", text |-> t] : t \in TypedLast} :
           events' = Append(events, e)
    /\ UNCHANGED <<createvars, editvars, pumpvars, tplvars, timers, browser, mode,
                   status_label, writes, write_conn, messages, closed>>

\* Lines 589-599 of auto_update_fields: the names are read, the display name
\* is set and, when a name is to be generated, the event loop runs.
auto_update_fields_begin ==
    LET first == Strip(first_name_edit')
        last == Strip(last_name_edit')
    IN /\ display_name_edit' = Strip(first \o <<" ">> \o last)
       /\ IF first # <<>> /\ last # <<>> /\ mode = "CREATE"
          THEN /\ status_label' = "Generating username..."
               /\ stack' = Append(stack, [h |-> "auto_update_fields",
                                          first |-> first, last |-> last])
               /\ upn_edit' = upn_edit
          ELSE /\ status_label' = status_label
               /\ stack' = stack
               /\ upn_edit' = Strip(sam_account_edit)

\* The event loop delivers the oldest key, from the main loop or from the
\* processEvents of the innermost handler; a key that changes the text of
\* its field starts auto_update_fields.
DeliverKey ==
    /\ mode = "CREATE"
    /\ events # <<>>
    /\ Len(stack) < MaxDepth
    /\ events' = Tail(events)
    /\ LET e == Head(events) IN
          /\ first_name_edit' = IF e.field = "first_name_edit" THEN e.text
                                ELSE first_name_edit
          /\ last_name_edit' = IF e.field = "last_name_edit" THEN e.text
                               ELSE last_name_edit
          /\ IF first_name_edit' # first_name_edit \/ last_name_edit' # last_name_edit
             THEN auto_update_fields_begin
             ELSE UNCHANGED <<display_name_edit, status_label, stack, upn_edit>>
    /\ UNCHANGED <<person, dir, sam_account_edit, contractor_chk, password_edit,
                   confirm_password_edit, call, placed>>
    /\ UNCHANGED <<editvars, in_flight, tplvars, timers, browser, mode, writes,
                   write_conn, messages, closed>>

\* Lines 601-614 of auto_update_fields: processEvents has returned, having
\* found no more keys; the name is generated from the names the handler read
\* and put in the SAM account field, and sync_upn_field copies it.
auto_update_fields_resume ==
    /\ mode = "CREATE"
    /\ stack # <<>>
    /\ events = <<>>
    /\ LET frame == stack[Len(stack)]
           r == auto_generate_sam_account(frame.first, frame.last, TRUE, dir)
           candidate == IF contractor_chk THEN contractor_suffix(r.result) ELSE r.result
       IN /\ call' = MkCall("UserEditor.helpers", "auto_update_fields",
                            frame.first, frame.last, TRUE, r)
          /\ IF r.result # None
             THEN /\ sam_account_edit' = candidate
                  /\ placed' = candidate
                  /\ status_label' = "Suggested username"
             ELSE /\ sam_account_edit' = sam_account_edit
                  /\ placed' = None
                  /\ status_label' = "Could not generate a unique username"
          /\ upn_edit' = Strip(sam_account_edit')
    /\ stack' = SubSeq(stack, 1, Len(stack) - 1)
    /\ UNCHANGED <<person, dir, first_name_edit, last_name_edit, display_name_edit,
                   contractor_chk, password_edit, confirm_password_edit>>
    /\ UNCHANGED <<editvars, in_flight, tplvars, loopvars, mode, writes, write_conn,
                   messages, closed>>

\* The create window of one person whose last name is typed in two steps,
\* over a directory in which every name is free.
InitKeys ==
    /\ person = [first |-> <<"J","o">>, last |-> <<"D","o","e">>]
    /\ dir = [n \in Universe(person)
                    \cup Universe([first |-> <<"J","o">>, last |-> <<"D","o">>])
                |-> "free"]
    /\ FormAfterConstruction
    /\ NoTemplates
    /\ NothingPending

NextKeys ==
    KeyPress \/ DeliverKey \/ auto_update_fields_resume

SpecKeys ==
    InitKeys /\ [][NextKeys]_vars

NextGen ==
    \/ CallHelpersGenerator
    \/ CallUserEditorGenerator

SpecGen ==
    InitGen /\ [][NextGen]_vars

NextWin ==
    \/ SetFirstName
    \/ SetLastName
    \/ update_contractor_status
    \/ ClearSamAccount
    \/ create_user
    \/ CallHelpersGenerator

SpecWin ==
    InitWin /\ [][NextWin]_vars

\* The create window of one person, whose display name field the
\* administrator may also empty, over a directory where every name is free
\* or every name is taken.
InitForm ==
    /\ InitWin
    /\ person = [first |-> <<"J","o">>, last |-> <<"D","o","e">>]
    /\ \E answer \in {"free", "exists"} : \A n \in DOMAIN dir : dir[n] = answer

NextForm ==
    NextWin \/ ClearDisplayName

SpecForm ==
    InitForm /\ [][NextForm]_vars

\* The three windows together: a behaviour is a session of one of them.
InitApp ==
    InitWin \/ InitEdit \/ InitLogin

NextApp ==
    NextWin \/ NextEdit \/ NextLogin

SpecApp ==
    InitApp /\ [][NextApp]_vars

(***************************************************************************)
(* Properties of the generators and of the create-mode handlers.           *)
(***************************************************************************)
\* The three names of the specification's algorithm for the last call.
CallFirst ==
    Lower(Strip(call.first))

CallLast ==
    Lower(Strip(call.last))

FirstDotLast ==
    CallFirst \o <<".">> \o CallLast

InitialDotLast ==
    Take(CallFirst, 1) \o <<".">> \o CallLast

TwoDotLast ==
    Take(CallFirst, 2) \o <<".">> \o CallLast

NamedCall ==
    call.fn # "none" /\ call.conn /\ CallFirst # <<>> /\ CallLast # <<>>

AllFree ==
    \A n \in DOMAIN dir : dir[n] = "free"

\* The first name of s that the directory reports free, None when there is none.
RECURSIVE FirstFreeOf(_)
FirstFreeOf(s) ==
    IF s = <<>> THEN None
    ELSE IF dir[Head(s)] = "free" THEN Head(s) ELSE FirstFreeOf(Tail(s))

\* C1: with every name reported as not existing, a generator called with
\* non-empty names (of letters only) whose lower-cased first.last has at most
\* 20 characters returns exactly lower(first) + "." + lower(last).
C1_FirstDotLastWhenFree ==
    (NamedCall /\ IsSanitized(FirstDotLast) /\ Len(FirstDotLast) <= 20 /\ AllFree)
        => call.result = FirstDotLast

\* C2: for names of letters only, when first.last is reported existing and
\* first[0].last is not, a generator returns first[0].last; the candidates are tried in the order
\* first.last, first[0].last, first[0:2].last and the first free one wins.
C2_InitialDotLastNext ==
    (NamedCall /\ IsSanitized(FirstDotLast)) =>
        /\ (/\ FirstDotLast \in DOMAIN dir /\ dir[FirstDotLast] = "exists"
            /\ InitialDotLast \in DOMAIN dir /\ dir[InitialDotLast] = "free")
              => call.result = InitialDotLast
        /\ (/\ {FirstDotLast, InitialDotLast, TwoDotLast} \subseteq DOMAIN dir
            /\ \A n \in {FirstDotLast, InitialDotLast, TwoDotLast} : dir[n] # "error"
            /\ \E n \in {FirstDotLast, InitialDotLast, TwoDotLast} : dir[n] = "free")
              => call.result = FirstFreeOf(<<FirstDotLast, InitialDotLast, TwoDotLast>>)

\* C3: when first.last, first[0].last and first[0:2].last are all reported
\* existing, a generator returns None and proposes no other name.
C3_AbsentWhenAllExist ==
    (/\ NamedCall
     /\ {FirstDotLast, InitialDotLast, TwoDotLast} \subseteq DOMAIN dir
     /\ \A n \in {FirstDotLast, InitialDotLast, TwoDotLast} : dir[n] = "exists")
        => call.result = None

\* C4: a generator never returns a name whose existence search raised.
C4_NeverReturnsUnverified ==
    (NamedCall /\ call.result # None)
        => (call.result \in DOMAIN dir /\ dir[call.result] # "error")

\* C5: with the contractor box checked, the name placed in the SAM account
\* field is base[:17] + "-c" and that suffixed string is the one whose
\* existence search was answered "does not exist".
C5_SuffixedFormChecked ==
    (placed # None /\ contractor_chk)
        => /\ placed = Take(call.result, 17) \o <<"-", "c">>
           /\ InSeq(placed, call.queried)

\* C6: every name a generator returns, and every name a handler places in
\* the SAM account field (with or without the "-c" suffix), has at most 20
\* characters.
C6_AtMostTwenty ==
    /\ call.result # None => Len(call.result) <= 20
    /\ placed # None => Len(placed) <= 20
    /\ Len(sam_account_edit) <= 20

\* C6 witness: a 20-character candidate was generated and placed with the
\* contractor suffix after truncation to 17 characters.
C6_Witness ==
    /\ placed # None /\ contractor_chk
    /\ Len(call.result) = 20
    /\ Len(placed) = 19

\* C7: every name a generator returns and every string it searches for
\* consists of lower-case ASCII letters, digits, ".", "-" and "_" only.
C7_OnlyValidCharacters ==
    NamedCall =>
        /\ call.result # None => IsSanitized(call.result)
        /\ \A i \in 1..Len(call.queried) : IsSanitized(call.queried[i])

\* C8: when first or last is empty after trimming, a generator returns None
\* (it does not raise) and proposes no name.
C8_AbsentOnEmptyName ==
    (call.fn # "none" /\ call.conn /\ (Strip(call.first) = <<>> \/ Strip(call.last) = <<>>))
        => (call.result = None /\ ~call.raised /\ call.queried = <<>>)

(***************************************************************************)
(* Properties of save_changes.                                             *)
(***************************************************************************)
\* save_changes has just run and sent a modify to the directory.
Sent ==
    handler = "save_changes" /\ writes # <<>>

\* The attribute names of the modify that was sent.
SentNames ==
    DOMAIN writes[1].changes

\* A password reset is requested: the new-password field is not empty.
ResetRequested ==
    edit_text.new_password_edit # <<>>

\* The attributes of the attributes tab that save_changes takes for edited:
\* not handled by the form, present in the tab, different from the snapshot.
TabEdited ==
    {a \in DOMAIN custom_attributes \ HandledElsewhere :
        custom_attributes[a] # Get(user_data, a, VStr(<<>>))}

CountryNames ==
    {"c", "co", "countryCode"}

\* The value the form holds for a dirty attribute name.
FormCarries(a, v) ==
    CASE a = "givenName" -> v = VStr(edit_text.first_name_edit)
      [] a = "title" -> v = VStr(edit_text.job_title_edit)
      [] a = "userPrincipalName" ->
            v = VStr(edit_text.upn_edit
                       \o domain_suffixes(user_data)[edit_combo.upn_suffix_combo])
      [] a = "userAccountControl" ->
            /\ v.t = "int"
            /\ HasBit(v.n, 2) = edit_chk.disabled_chk
            /\ HasBit(v.n, 65536) = edit_chk.pwd_never_expires_chk
            /\ HasBit(v.n, 64) = edit_chk.cannot_change_pwd_chk
      [] a = "pwdLastSet" -> v = IF edit_chk.pwd_expired_chk THEN VInt(0) ELSE VInt(-1)
      [] OTHER -> FALSE

\* C9 as stated: every attribute name sent by save_changes is in
\* modified_attributes or is the password attribute of a requested reset,
\* and with no dirty flag and an empty new-password field nothing is sent,
\* whatever was done in the attributes tab.
C9_NoSilentWrites ==
    /\ Sent => \A a \in SentNames :
                 \/ a \in modified_attributes
                 \/ (a = "unicodePwd" /\ ResetRequested)
    /\ (handler = "save_changes" /\ modified_attributes = {} /\ ~ResetRequested)
          => /\ writes = <<>>
             /\ modifications = EmptyDict

\* C9 amended: every attribute name sent by save_changes is in
\* modified_attributes, or is one of c, co, countryCode while 'country' is
\* in modified_attributes, or is unicodePwd while the new password is not
\* empty and equals its confirmation, or is an attribute of the attributes
\* tab that the form does not handle and whose value in the tab differs from
\* the snapshot; with no dirty flag, an empty new-password field and an
\* attributes tab equal to the snapshot, nothing is sent and the status reads
\* "No changes to save".
C9_WritesAreDirtyOrTabEdited ==
    /\ Sent => \A a \in SentNames :
                 \/ a \in modified_attributes
                 \/ (a \in CountryNames /\ "country" \in modified_attributes)
                 \/ /\ a = "unicodePwd"
                    /\ ResetRequested
                    /\ edit_text.new_password_edit = edit_text.confirm_password_edit
                 \/ a \in TabEdited
    /\ (/\ handler = "save_changes"
        /\ modified_attributes = {}
        /\ ~ResetRequested
        /\ custom_attributes = user_data)
          => /\ writes = <<>>
             /\ modifications = EmptyDict
             /\ status_label = "No changes to save"

\* save_changes has sent an attribute edited in the attributes tab and the
\* three country attributes, none of them a dirty flag.
C9_Witness ==
    /\ Sent
    /\ "employeeID" \in SentNames
    /\ "employeeID" \notin modified_attributes
    /\ CountryNames \subseteq SentNames
    /\ modified_attributes = {"country"}

\* C10 as stated: save_changes emits, for every name in modified_attributes,
\* a replace of that attribute with the current form value, and the emitted
\* attribute set is exactly modified_attributes plus the password attribute
\* when a reset is requested (a save stopped by a password mismatch aside).
C10_NoOmissions ==
    (handler = "save_changes" /\ ~password_mismatch(edit_text)) =>
        /\ \A a \in modified_attributes :
             /\ a \in DOMAIN modifications
             /\ FormCarries(a, modifications[a])
        /\ DOMAIN modifications =
             modified_attributes \cup (IF ResetRequested THEN {"unicodePwd"} ELSE {})
        /\ modifications # EmptyDict =>
             (writes # <<>> /\ writes[1].changes = modifications)

\* C10 amended: unless the new password differs from its confirmation,
\* save_changes emits for every name in modified_attributes other than
\* 'country' a replace of that attribute with the current form value, equal
\* to the snapshot value or not; for 'country' it emits c, co and countryCode
\* of the selected country; the emitted attribute set is exactly these, plus
\* unicodePwd when a reset is requested, plus the attributes of the
\* attributes tab that the form does not handle and whose value differs from
\* the snapshot.  When the passwords differ nothing is emitted.
C10_DirtyEmittedUnconditionally ==
    /\ (handler = "save_changes" /\ ~password_mismatch(edit_text)) =>
        /\ \A a \in modified_attributes \ {"country"} :
             /\ a \in DOMAIN modifications
             /\ FormCarries(a, modifications[a])
        /\ "country" \in modified_attributes =>
             /\ CountryNames \subseteq DOMAIN modifications
             /\ \E i \in 1..Len(countries) :
                  /\ i = edit_combo.country_combo
                  /\ modifications["co"] = VStr(<<countries[i][1]>>)
                  /\ modifications["c"] = VStr(<<countries[i][2]>>)
                  /\ modifications["countryCode"] = VStr(<<countries[i][3]>>)
        /\ DOMAIN modifications =
             (modified_attributes \ {"country"})
               \cup (IF "country" \in modified_attributes THEN CountryNames ELSE {})
               \cup (IF ResetRequested THEN {"unicodePwd"} ELSE {})
               \cup TabEdited
        /\ modifications # EmptyDict =>
             (writes # <<>> /\ writes[1].changes = modifications)
    /\ (handler = "save_changes" /\ password_mismatch(edit_text)) => writes = <<>>

\* save_changes has sent givenName, dirty although the field is back to the
\* text of the snapshot, together with a password reset.
C10_Witness ==
    /\ Sent
    /\ "givenName" \in modified_attributes
    /\ "givenName" \in DOMAIN user_data
    /\ VStr(edit_text.first_name_edit) = user_data["givenName"]
    /\ writes[1].changes["givenName"] = user_data["givenName"]

\* save_changes has just run to its end: it was not stopped by differing
\* passwords.
Reconciled ==
    handler = "save_changes" /\ ~password_mismatch(edit_text)

\* C11: when 'country' is dirty, one save_changes call emits exactly the
\* three replaces c (two-letter code), co (display name) and countryCode
\* (numeric code), all of the country selected in country_combo, in one
\* modify; when 'country' is not dirty it emits none of the three.
C11_CountryEmitsThree ==
    Reconciled =>
        /\ "country" \in modified_attributes =>
             /\ CountryNames \subseteq DOMAIN modifications
             /\ \E i \in 1..Len(countries) :
                  /\ i = edit_combo.country_combo
                  /\ [a \in CountryNames |-> modifications[a]] =
                       [a \in CountryNames |->
                          CASE a = "c" -> VStr(<<countries[i][2]>>)
                            [] a = "co" -> VStr(<<countries[i][1]>>)
                            [] a = "countryCode" -> VStr(<<countries[i][3]>>)]
             /\ Len(writes) = 1
             /\ CountryNames \subseteq DOMAIN writes[1].changes
        /\ "country" \notin modified_attributes =>
             CountryNames \cap DOMAIN modifications = {}

\* save_changes has sent the three attributes of the second country of the
\* combo, selected during the session.
C11_Witness ==
    /\ Sent
    /\ "country" \in modified_attributes
    /\ edit_combo.country_combo = 2
    /\ writes[1].changes["co"] = VStr(<<"Canada">>)
    /\ writes[1].changes["c"] = VStr(<<"CA">>)
    /\ writes[1].changes["countryCode"] = VStr(<<"124">>)

\* C12: when the new password is not empty and differs from its
\* confirmation, save_changes issues no modify, whatever is dirty, shows
\* "Password Mismatch" and reports "Password mismatch", which is not the
\* "No changes to save" report.
C12_MismatchSendsNothing ==
    (/\ handler = "save_changes"
     /\ edit_text.new_password_edit # <<>>
     /\ edit_text.new_password_edit # edit_text.confirm_password_edit)
        => /\ writes = <<>>
           /\ ~closed
           /\ status_label = "Password mismatch"
           /\ status_label # "No changes to save"
           /\ messages = <<"Password Mismatch">>

\* save_changes was stopped by differing passwords while other attributes
\* were dirty.
C12_Witness ==
    /\ handler = "save_changes"
    /\ edit_text.new_password_edit # <<>>
    /\ edit_text.new_password_edit # edit_text.confirm_password_edit
    /\ modified_attributes # {}
    /\ status_label = "Password mismatch"

\* The bytes b are the UTF-16LE encoding of the ASCII text s: two bytes per
\* character, the character's own byte and a zero byte.
IsUtf16LeOf(b, s) ==
    /\ Len(b) = 2 * Len(s)
    /\ \A i \in 1..Len(s) : b[2 * i - 1] = s[i] /\ b[2 * i] = "\\x00"

\* C13: when the new password is not empty and equals its confirmation,
\* save_changes emits one replace of unicodePwd whose value is the UTF-16LE
\* encoding of the password in double quotes, whatever the dirty set, the
\* empty one included, and sends it.
C13_PasswordEncoded ==
    (/\ handler = "save_changes"
     /\ edit_text.new_password_edit # <<>>
     /\ edit_text.new_password_edit = edit_text.confirm_password_edit)
        => /\ "unicodePwd" \in DOMAIN modifications
           /\ modifications["unicodePwd"].t = "bytes"
           /\ IsUtf16LeOf(modifications["unicodePwd"].s,
                          <<"\"">> \o edit_text.new_password_edit \o <<"\"">>)
           /\ Len(writes) = 1
           /\ writes[1].changes = modifications

\* save_changes has sent a password reset and nothing else, with no
\* attribute dirty.
C13_Witness ==
    /\ Sent
    /\ modified_attributes = {}
    /\ edit_text.new_password_edit = <<"p">>
    /\ DOMAIN writes[1].changes = {"unicodePwd"}
    /\ writes[1].changes["unicodePwd"].s = <<"\"", "\\x00", "p", "\\x00", "\"", "\\x00">>

\* n without the bits 2, 64 and 65536
OtherBits(n) ==
    LET n1 == IF (n \div 2) % 2 = 1 THEN n - 2 ELSE n
        n2 == IF (n1 \div 64) % 2 = 1 THEN n1 - 64 ELSE n1
        n3 == IF (n2 \div 65536) % 2 = 1 THEN n2 - 65536 ELSE n2
    IN n3

\* C14: save_changes emits userAccountControl, as one replace, exactly when
\* it is dirty; the value is the snapshot's bitmask with bit 2 equal to the
\* disabled box, bit 64 to the cannot-change box, bit 65536 to the
\* never-expires box and every other bit as in the snapshot.
C14_UacFromSnapshot ==
    Reconciled =>
        /\ "userAccountControl" \in DOMAIN modifications
             <=> "userAccountControl" \in modified_attributes
        /\ "userAccountControl" \in DOMAIN modifications =>
             LET v == modifications["userAccountControl"]
             IN /\ v.t = "int"
                /\ ((v.n \div 2) % 2 = 1) = edit_chk.disabled_chk
                /\ ((v.n \div 64) % 2 = 1) = edit_chk.cannot_change_pwd_chk
                /\ ((v.n \div 65536) % 2 = 1) = edit_chk.pwd_never_expires_chk
                /\ OtherBits(v.n) = OtherBits(Get(user_data, "userAccountControl", VInt(0)).n)
                /\ Len(writes) = 1
                /\ writes[1].changes["userAccountControl"] = v

\* The snapshot holds 512, the disabled box was checked, and save_changes
\* has sent 514.
C14_Witness ==
    /\ Sent
    /\ "userAccountControl" \in DOMAIN user_data
    /\ user_data["userAccountControl"] = VInt(512)
    /\ modified_attributes = {"userAccountControl"}
    /\ edit_chk.disabled_chk
    /\ writes[1].changes["userAccountControl"] = VInt(514)

\* C15: when the dict save_changes has built is empty it reports "No changes
\* to save" and issues no modify; every modify it issues carries a
\* non-empty dict.
C15_EmptyIsNotSent ==
    /\ (Reconciled /\ modifications = EmptyDict)
          => /\ writes = <<>>
             /\ status_label = "No changes to save"
             /\ messages = <<>>
    /\ (handler = "save_changes" /\ writes # <<>>)
          => \A i \in 1..Len(writes) : writes[i].changes # EmptyDict

\* save_changes has run with nothing to send: no flag is dirty and the only
\* change of the session, an attribute cleared in the attributes tab, is not
\* part of the dict.
C15_Witness ==
    /\ handler = "save_changes"
    /\ edits > 0
    /\ custom_attributes # user_data
    /\ modifications = EmptyDict
    /\ writes = <<>>
    /\ status_label = "No changes to save"

\* C16: no step of the edit session changes user_data: not a field edit, not
\* an edit or clear in the attributes tab, not a save_changes, whether it
\* succeeds, fails or stops on differing passwords.
C16_SnapshotNeverMutated ==
    [][user_data' = user_data]_vars

\* A save_changes that sent userAccountControl and an attribute edited in the
\* attributes tab has succeeded; the snapshot is still one of the loaded ones.
C16_Witness ==
    /\ Sent
    /\ closed
    /\ "userAccountControl" \in SentNames
    /\ "employeeID" \in SentNames
    /\ custom_attributes # user_data
    /\ user_data \in Snapshots

\* A control bound to the attribute name a changes in this step.
ControlFires(a) ==
    CASE a = "givenName" -> edit_text'.first_name_edit # edit_text.first_name_edit
      [] a = "title" -> edit_text'.job_title_edit # edit_text.job_title_edit
      [] a = "userPrincipalName" ->
            \/ edit_text'.upn_edit # edit_text.upn_edit
            \/ edit_combo'.upn_suffix_combo # edit_combo.upn_suffix_combo
      [] a = "userAccountControl" ->
            \/ edit_chk'.disabled_chk # edit_chk.disabled_chk
            \/ edit_chk'.pwd_never_expires_chk # edit_chk.pwd_never_expires_chk
            \/ edit_chk'.cannot_change_pwd_chk # edit_chk.cannot_change_pwd_chk
      [] a = "pwdLastSet" -> edit_chk'.pwd_expired_chk # edit_chk.pwd_expired_chk
      [] a = "country" -> edit_combo'.country_combo # edit_combo.country_combo
      [] OTHER -> FALSE

\* C17: in every step of the edit session modified_attributes keeps the
\* names it has, save_changes included whatever its outcome, and a name
\* enters it only in a step in which a control bound to it changes.
C17_DirtyFlagsOnlyGrow ==
    [][/\ modified_attributes \subseteq modified_attributes'
       /\ \A a \in modified_attributes' \ modified_attributes : ControlFires(a)]_vars

\* Two flags were set one after the other and a save_changes whose modify
\* the directory refused has left both in place.
C17_Witness ==
    /\ Sent
    /\ writes[1].outcome = "fail"
    /\ ~closed
    /\ Cardinality(modified_attributes) >= 2

(***************************************************************************)
(* Properties of create_user's writes.                                     *)
(***************************************************************************)
\* create_user has run and the add of the user entry has succeeded.
Added ==
    /\ mode = "CREATE"
    /\ writes # <<>>
    /\ writes[1].op = "add"
    /\ writes[1].outcome = "ok"

\* The writes of the handler that did not succeed: the directory refused
\* them ("fail") or the call raised ("raise").
FailedWrites(op) ==
    SelectSeq(writes, LAMBDA w : w.op = op /\ w.outcome # "ok")

\* C18: once the add has succeeded, create_user issues no delete of the
\* entry, and it reports every later step that fails: one "Group Error" per
\* membership modify that raised or that the directory refused, and a
\* message for a pwdLastSet modify that raised or was refused.
C18_LaterFailuresReported ==
    Added =>
        /\ \A i \in 1..Len(writes) : writes[i].op # "delete"
        /\ Len(SelectSeq(messages, LAMBDA m : m = "Group Error"))
             = Len(FailedWrites("modify_member"))
        /\ FailedWrites("modify_pwdLastSet") # <<>> => messages # <<>>

(***************************************************************************)
(* Properties of the directory calls of one user action.                   *)
(***************************************************************************)
\* Two entries of the log are the same directory call: the same operation
\* on the same target.
SameCall(w1, w2) ==
    /\ w1.op = w2.op
    /\ w1.op = "modify_member" => w1.group = w2.group

\* C19: within one create_user, save_changes or login no directory call is
\* issued twice, and a failed add, a failed modify of save_changes or a
\* failed bind or search of login is the last call of its action.
C19_NoRetry ==
    /\ \A i \in 1..Len(writes) : \A j \in 1..Len(writes) :
          i # j => ~SameCall(writes[i], writes[j])
    /\ \A i \in 1..Len(writes) :
          (writes[i].op \in {"add", "modify", "bind", "search"} /\ writes[i].outcome # "ok")
              => i = Len(writes)

\* create_user went on after a membership modify failed: the failed modify
\* was issued once and the modify of the next group followed.
C19_Witness ==
    /\ Added
    /\ Len(writes) = 3
    /\ writes[2].op = "modify_member" /\ writes[2].outcome # "ok"
    /\ writes[3].op = "modify_member" /\ writes[3].group # writes[2].group

(***************************************************************************)
(* Properties of the nesting of handlers.                                  *)
(***************************************************************************)
\* C20: whatever handlers are started from the dispatch points of the
\* running ones, at most one directory call has started and not returned.
C20_OneCallInFlight ==
    in_flight <= 1

\* A handler started from the processEvents() of auto_update_fields is
\* inside a directory call while auto_update_fields waits for
\* processEvents() to return.
C20_Witness ==
    /\ Len(stack) >= 2
    /\ stack[1].h = "auto_update_fields" /\ stack[1].busy
    /\ step_of(stack[1]) = "processEvents"
    /\ stack[Len(stack)].busy
    /\ step_of(stack[Len(stack)]) \in directory_calls
    /\ in_flight = 1

(***************************************************************************)
(* Properties of the template storage.                                     *)
(***************************************************************************)
\* A JSON document of the shape of a template file: an object whose entries
\* are objects with a "name" and a "settings".
ExpectedShape(doc) ==
    /\ doc.t = "object"
    /\ \A i \in 1..Len(doc.l) :
          /\ doc.l[i][2].t = "object"
          /\ HasKey(doc.l[i][2].l, "name")
          /\ HasKey(doc.l[i][2].l, "settings")

\* A file that is there and is not a template file.
Corrupt(f) ==
    f.exists /\ (~f.valid \/ ~ExpectedShape(f.doc))

\* C21: constructing a TemplateManager over a missing or corrupt template
\* file never raises and yields an empty template set, corrupt being text
\* that is not JSON or JSON that is not of the expected shape.
C21_CorruptFileIsNoTemplates ==
    (tpl_call.op = "__init__" /\ (~file.exists \/ Corrupt(file)))
        => /\ tpl_call.raised = ""
           /\ manager = "built"
           /\ templates = <<>>

\* C22: template storage round-trips verbatim: load_templates on a file
\* that save_templates wrote from a template set yields that set, the same
\* names with the same name and settings values; and import_templates into
\* an empty manager of a file export_templates wrote yields the exported
\* set.
C22_RoundTripVerbatim ==
    /\ (tpl_call.op = "load_templates" /\ file = save_templates(tpl_call.before))
          => (tpl_call.raised = "" /\ templates = tpl_call.before)
    /\ (tpl_call.op = "import_templates" /\ tpl_call.before = <<>> /\ exported.done)
          => (tpl_call.raised = "" /\ templates = exported.templates)

(***************************************************************************)
(* Properties of create_user's input checks.                               *)
(***************************************************************************)
\* A step of create_user: the only create-mode handler that shows a message
\* box or opens the write connection.
CreateUserStep ==
    mode = "CREATE" /\ (messages' # <<>> \/ write_conn' # "none")

\* The form, at the click, fails validation: a required field is empty, the
\* passwords differ, or no account name is given and none can be generated.
ValidationFailure ==
    LET first == Strip(first_name_edit)
        last == Strip(last_name_edit)
    IN \/ first = <<>> \/ last = <<>>
       \/ password_edit' = <<>> \/ confirm_password_edit' = <<>>
       \/ password_edit' # confirm_password_edit'
       \/ /\ Strip(sam_account_edit) = <<>>
          /\ auto_generate_sam_account(first, last, TRUE, dir).result = None

\* create_user went on to open the write connection.
Proceeded ==
    write_conn' # "none" \/ messages' = <<"LDAP Error">>

\* C23: a validation failure of create_user aborts it before the write
\* connection or the add and leaves every form value in place; and a
\* create_user on input that passes validation goes on to the connection,
\* whatever failed before.
C23_ValidationFailureAborts ==
    [][CreateUserStep
         => IF ValidationFailure
            THEN /\ writes' = <<>> /\ write_conn' = "none"
                 /\ UNCHANGED <<first_name_edit, last_name_edit, display_name_edit,
                                sam_account_edit, upn_edit, contractor_chk>>
            ELSE Proceeded]_vars

\* C23 as amended: the same, except that a display name field left blank is
\* filled with "first last" before the account name is generated, also when
\* the generation then fails.
C23_AbortsKeepingEntries ==
    [][CreateUserStep
         => IF ValidationFailure
            THEN /\ writes' = <<>> /\ write_conn' = "none"
                 /\ messages' \in {<<"Input Error">>, <<"SAM Account Name">>}
                 /\ UNCHANGED <<first_name_edit, last_name_edit, sam_account_edit,
                                upn_edit, contractor_chk>>
                 /\ display_name_edit' =
                       IF messages' = <<"SAM Account Name">>
                          /\ Strip(display_name_edit) = <<>>
                       THEN Strip(first_name_edit) \o <<" ">> \o Strip(last_name_edit)
                       ELSE display_name_edit
            ELSE Proceeded]_vars

\* create_user has refused differing passwords on a form that is otherwise
\* in order, and has left the form as it was.
C23_Witness ==
    /\ mode = "CREATE" /\ ~closed
    /\ messages = <<"Input Error">>
    /\ status_label = "Error: Passwords do not match"
    /\ password_edit = <<"p">> /\ confirm_password_edit = <<"q">>
    /\ writes = <<>> /\ write_conn = "none"
    /\ Strip(first_name_edit) # <<>> /\ Strip(last_name_edit) # <<>>
    /\ sam_account_edit # <<>>

(***************************************************************************)
(* Sanitization.                                                           *)
(***************************************************************************)
\* C24: the sanitization of a candidate (cut to 20 characters, every
\* character outside lowercase ASCII letters, digits, ".", "-" and "_"
\* replaced by ".") is idempotent: applied to a sanitized candidate it
\* returns the same string.
C24_SanitizeIdempotent ==
    (call.fn = "sanitize" /\ call.by = "sanitized")
        => /\ call.result = call.first
           /\ Len(call.result) <= 20
           /\ IsSanitized(call.result)

\* A candidate that was too long and held characters to replace has been
\* sanitized twice.
C24_Witness ==
    /\ call.fn = "sanitize" /\ call.by = "sanitized"
    /\ Len(call.last) > 20
    /\ ~IsSanitized(call.last)
    /\ call.result = call.first
    /\ call.result # call.last

(***************************************************************************)
(* The template file and the templates in memory.                          *)
(***************************************************************************)
\* The last call is an add_template, delete_template or import_templates
\* that returned.
Returned(op) ==
    tpl_call'.op = op /\ tpl_call'.raised = ""

\* delete_template returns True exactly when the name was present, and
\* changes nothing when it returns False.
DeleteAnswers ==
    Returned("delete_template")
        => /\ tpl_call'.returned = PyBool(HasKey(templates, tpl_call'.arg))
           /\ tpl_call'.returned = PyBool(FALSE) => UNCHANGED <<templates, file>>

\* C25: after any sequence of add_template, delete_template and
\* import_templates calls that return normally the template file holds the
\* serialization of the templates in memory; delete_template returns True
\* exactly when the name was present, and when it returns False neither the
\* templates nor the file change.
C25_FileIsSerialization ==
    [][/\ (tpl_call'.normal /\ (Returned("add_template") \/ Returned("delete_template")
                                  \/ Returned("import_templates")))
            => file' = save_templates(templates')
       /\ DeleteAnswers]_vars

\* C25 as amended: the file holds the serialization after every call that
\* saves: add_template, a delete_template that returns True and an
\* import_templates that returns normally, whatever the calls before did.
C25_FileIsSerializationAfterSave ==
    [][/\ (\/ Returned("add_template")
           \/ Returned("delete_template") /\ tpl_call'.returned = PyBool(TRUE)
           \/ Returned("import_templates"))
            => file' = save_templates(templates')
       /\ DeleteAnswers]_vars

\* A delete_template that returned True has left another template, in
\* memory and in the file.
C25_Witness ==
    /\ tpl_call.op = "delete_template" /\ tpl_call.returned = PyBool(TRUE)
    /\ Len(tpl_call.before) = 2 /\ Len(templates) = 1
    /\ file = save_templates(templates)

(***************************************************************************)
(* The attributes tab in save_changes.                                     *)
(***************************************************************************)
\* The attributes the administrator cleared in the tab: in the snapshot and
\* no longer in the tab's map.
Cleared ==
    DOMAIN user_data \ DOMAIN custom_attributes

\* The form gives a reason to send the attribute a.
FormSends(a) ==
    \/ a \in modified_attributes
    \/ a \in CountryNames /\ "country" \in modified_attributes
    \/ a = "unicodePwd" /\ ResetRequested

\* C26: save_changes emits a replace for an attribute of the attributes tab
\* exactly when the attribute is in the tab's map, is not a form-handled
\* name, is not yet in the modification set and its value differs from the
\* snapshot value; the replace carries the tab's value; an attribute cleared
\* in the tab produces no operation.
C26_TabAttributesEmitted ==
    (handler = "save_changes" /\ ~password_mismatch(edit_text))
        => /\ DOMAIN modifications \ HandledElsewhere = TabEdited
           /\ \A a \in TabEdited : modifications[a] = custom_attributes[a]
           /\ \A a \in DOMAIN modifications \cap HandledElsewhere : FormSends(a)
           /\ \A a \in Cleared : a \in DOMAIN modifications => FormSends(a)
           /\ writes # <<>> => writes[1].changes = modifications

\* save_changes has sent the employeeID edited in the tab; the logonCount
\* cleared in the tab and the country code edited in the tab, a form-handled
\* name, are not part of the modify.
C26_Witness ==
    /\ Sent
    /\ "employeeID" \in SentNames
    /\ writes[1].changes["employeeID"] = custom_attributes["employeeID"]
    /\ "logonCount" \in Cleared
    /\ "logonCount" \notin SentNames
    /\ "c" \in DOMAIN custom_attributes
    /\ custom_attributes["c"] # user_data["c"]
    /\ "c" \notin SentNames

(***************************************************************************)
(* The order of create_user's writes and its write connection.             *)
(***************************************************************************)
\* C27: in create_user the pwdLastSet modify and every membership modify
\* are issued only after the add returned success; after an add that
\* returned failure no further write is issued; and on every path that ends
\* create_user after the write connection was opened (add failure, success,
\* or an exception of a later step) the connection is unbound.
C27_WritesOrderedAndUnbound ==
    mode = "CREATE"
        => /\ \A i \in 1..Len(writes) :
                 writes[i].op \in {"modify_pwdLastSet", "modify_member"}
                     => /\ i > 1
                        /\ writes[1].op = "add"
                        /\ writes[1].outcome = "ok"
           /\ (writes # <<>> /\ writes[1].outcome = "fail") => Len(writes) = 1
           /\ write_conn # "bound"

(***************************************************************************)
(* Properties of the login window.                                         *)
(***************************************************************************)
\* The entry names the group cn among its memberOf values: one of them is
\* the distinguished name of a group whose own name is cn.
MemberOf(entry, cn) ==
    /\ "memberOf" \in DOMAIN entry
    /\ \E i \in 1..Len(entry.memberOf) :
           Take(entry.memberOf[i], Len(cn) + 1) = cn \o <<",">>

\* The last login bound, found the user's entry, and the entry is a member
\* of Domain Admins or of Enterprise Admins.
Admitted ==
    /\ Len(writes) = 2
    /\ writes[1].op = "bind" /\ writes[1].outcome = "ok"
    /\ writes[2].op = "search" /\ writes[2].outcome = "ok"
    /\ writes[2].entries # <<>>
    /\ \/ MemberOf(writes[2].entries[1], CN_Domain_Admins)
       \/ MemberOf(writes[2].entries[1], CN_Enterprise_Admins)

\* C28: in the login window the opening of the directory browser is
\* scheduled only by a login that bound, found the entry and found it a
\* member of Domain Admins or Enterprise Admins; the browser is opened only
\* by such a scheduled opening; and no step leaves a bound connection behind.
C28_BrowserOnlyForAdministrators ==
    [][mode = "LOGIN"
          => /\ timers' > timers => Admitted'
             /\ browser' # browser => timers > 0
             /\ write_conn' # "bound"]_vars

(***************************************************************************)
(* Properties of the name fields under the event loop.                     *)
(***************************************************************************)
\* Every key has been delivered and every auto_update_fields has returned.
AllEventsHandled ==
    events = <<>> /\ stack = <<>>

\* C29: in create mode, once every pending key is delivered and every
\* auto_update_fields has returned, and both name fields hold a name, the
\* SAM account field holds the candidate generated from the texts the two
\* name fields hold now.
C29_SamFromCurrentNames ==
    (/\ mode = "CREATE"
     /\ AllEventsHandled
     /\ Strip(first_name_edit) # <<>>
     /\ Strip(last_name_edit) # <<>>)
        => sam_account_edit
              = auto_generate_sam_account(Strip(first_name_edit),
                                          Strip(last_name_edit), TRUE, dir).result

(***************************************************************************)
(* Properties of the names create_user sends.                              *)
(***************************************************************************)
\* C30: when create_user found the SAM account field empty, generated the
\* name and sent the add, the userPrincipalName and the mail of the add are
\* the generated sAMAccountName followed by the selected suffix: the prefix
\* of the UPN is the sAMAccountName of the same add.
C30_UpnPrefixIsGeneratedName ==
    (/\ mode = "CREATE"
     /\ placed # None
     /\ writes # <<>>
     /\ writes[1].op = "add")
        => /\ writes[1].sAMAccountName = placed
           /\ writes[1].upn_prefix = writes[1].sAMAccountName

====
